---------------------------- MODULE Spec2Model ----------------------------
(***************************************************************************)
(* Model of the sni-multiplexor maintenance scripts:                       *)
(*   experiments/sni-multiplexor/session-reaper.py    (the reaper)         *)
(*   experiments/sni-multiplexor/active-formatter.py  (the listing tool)   *)
(*                                                                         *)
(* Text is modelled as sequences of one-character strings, so that strip,  *)
(* split and int are computed character by character as the scripts do.   *)
(* A line of the management stream carries its line terminator, as the     *)
(* lines Python yields when iterating over a file object do.               *)
(*                                                                         *)
(* A duration (datetime.timedelta) is modelled by the days, seconds and    *)
(* microseconds it holds.  An optional attribute is <<>> for None and      *)
(* <<v>> for a value v.                                                    *)
(*                                                                         *)
(* The scripts start with "#!/usr/bin/env python": which interpreter runs  *)
(* them is decided by the host.  They are written for Python 2 (they write *)
(* str objects to subprocess pipes and apply a format width to timedelta   *)
(* and None).  The variable py holds the major version of the interpreter; *)
(* the operators where the two versions differ take it as a parameter.     *)
(***************************************************************************)
EXTENDS Integers, Sequences, FiniteSets, TLC

VARIABLES
    py,        \* major version of the interpreter running the script
    prog,      \* which entry point runs: "reaper", "load_sessions", ...
    stream,    \* the lines the listing connection delivers, in order
    pc,        \* control location
    exc,       \* the exception in flight: <<>> or <<type>>
    pos,       \* load_sessions: number of lines taken from the stream
    acc,       \* load_sessions: the local list `sessions`
    lineout,   \* load_sessions: what each line taken so far led to
    sessions,  \* main: the list the for loops walk
    pass,      \* main: 1 in the first for loop, 2 in the second
    idx,       \* main: position of `sess` in the running for loop
    stdout,    \* rows printed so far
    cmds,      \* command lines written to management connections so far
    nopen,     \* relay subprocesses started and not yet waited for
    nopened,   \* relay subprocesses started so far
    rc,        \* exit status the last wait() returned: <<>> or <<status>>
    events,    \* history of the run: rows printed, commands issued, raises
    argv,      \* listing tool: sys.argv[1:], <<>> or <<expr>>
    call_ms,   \* timedelta_from_ms called alone: its argument
    call_td    \* timedelta_from_ms called alone: <<>> or <<value returned>>

vars == <<py, prog, stream, pc, exc, pos, acc, lineout, sessions, pass, idx,
          stdout, cmds, nopen, nopened, rc, events, argv, call_ms, call_td>>

-----------------------------------------------------------------------------
(* Bounds of the model *)

MaxLines == 3

-----------------------------------------------------------------------------
(* Literals of the scripts *)

None == <<>>
Some(v) == <<v>>

PyVersions == {2, 3}

END == <<"E","N","D">>
SP == " "
EQ == "="
COMMA == ","
session_age_ms == <<"s","e","s","s","i","o","n","_","a","g","e","_","m","s">>
last_xmit_ago_ms == <<"l","a","s","t","_","x","m","i","t","_","a","g","o","_","m","s">>
backend_name == <<"b","a","c","k","e","n","d","_","n","a","m","e">>
shutdown_write == <<"s","h","u","t","d","o","w","n","-","w","r","i","t","e">>
connected == <<"c","o","n","n","e","c","t","e","d">>
print_active_sessions == <<"p","r","i","n","t","-","a","c","t","i","v","e","-","s","e","s","s","i","o","n","s","\n">>
destroy_session_prefix == <<"d","e","s","t","r","o","y","-","s","e","s","s","i","o","n"," ">>
extra_types == {session_age_ms, last_xmit_ago_ms}

MsPerDay == 86400000
\* timedelta(minutes=10), timedelta(hours=1)
TenMinutes == <<0, 600, 0>>
OneHour == <<0, 3600, 0>>

-----------------------------------------------------------------------------
(* str methods and int(), on sequences of characters *)

Digits == {"0", "1", "2", "3", "4", "5", "6", "7", "8", "9"}

\* index of the first c in s, or 0 (str.find, counted from 1)
find(s, c) ==
    LET at == {i \in 1..Len(s) : s[i] = c} IN
    IF at = {} THEN 0 ELSE CHOOSE i \in at : \A j \in at : i <= j

\* the whitespace characters that have no escape in a string: vertical tab
\* (0x0b), the separators 0x1c to 0x1f, next line (0x85) and no-break
\* space (0xa0)
VT == ""
FS == ""
GS == ""
RS == ""
US == ""
NEL == ""
NBSP == " "

\* A string of TLA+ holds, of the characters beyond U+00FF, those whose
\* code point ends in a byte of 0x80 or more; the tables below list the
\* whitespace and the digits among them, from Unicode 14.0.0.

\* the whitespace characters beyond U+00A0, which str.strip() and int() of
\* Python 3 know, each with its code point
UnicodeSpaces ==
    <<
       <<" ", 5760>>
    >>
UnicodeSpaceSet == {UnicodeSpaces[i][1] : i \in 1..Len(UnicodeSpaces)}

\* the decimal digits other than 0 to 9 (category Nd), which int() of
\* Python 3 reads as digits: for each run of ten, the code point of its
\* zero and the digits from zero to nine
UnicodeDigits ==
    <<
       <<1776, <<"۰", "۱", "۲", "۳", "۴", "۵", "۶", "۷", "۸", "۹">>>>,
       <<1984, <<"߀", "߁", "߂", "߃", "߄", "߅", "߆", "߇", "߈", "߉">>>>,
       <<2534, <<"০", "১", "২", "৩", "৪", "৫", "৬", "৭", "৮", "৯">>>>,
       <<2790, <<"૦", "૧", "૨", "૩", "૪", "૫", "૬", "૭", "૮", "૯">>>>,
       <<3046, <<"௦", "௧", "௨", "௩", "௪", "௫", "௬", "௭", "௮", "௯">>>>,
       <<3302, <<"೦", "೧", "೨", "೩", "೪", "೫", "೬", "೭", "೮", "೯">>>>,
       <<3558, <<"෦", "෧", "෨", "෩", "෪", "෫", "෬", "෭", "෮", "෯">>>>,
       <<3792, <<"໐", "໑", "໒", "໓", "໔", "໕", "໖", "໗", "໘", "໙">>>>,
       <<4240, <<"႐", "႑", "႒", "႓", "႔", "႕", "႖", "႗", "႘", "႙">>>>,
       <<6112, <<"០", "១", "២", "៣", "៤", "៥", "៦", "៧", "៨", "៩">>>>,
       <<6608, <<"᧐", "᧑", "᧒", "᧓", "᧔", "᧕", "᧖", "᧗", "᧘", "᧙">>>>,
       <<6784, <<"᪀", "᪁", "᪂", "᪃", "᪄", "᪅", "᪆", "᪇", "᪈", "᪉">>>>,
       <<6800, <<"᪐", "᪑", "᪒", "᪓", "᪔", "᪕", "᪖", "᪗", "᪘", "᪙">>>>,
       <<7088, <<"᮰", "᮱", "᮲", "᮳", "᮴", "᮵", "᮶", "᮷", "᮸", "᮹">>>>,
       <<43216, <<"꣐", "꣑", "꣒", "꣓", "꣔", "꣕", "꣖", "꣗", "꣘", "꣙">>>>,
       <<43472, <<"꧐", "꧑", "꧒", "꧓", "꧔", "꧕", "꧖", "꧗", "꧘", "꧙">>>>,
       <<43504, <<"꧰", "꧱", "꧲", "꧳", "꧴", "꧵", "꧶", "꧷", "꧸", "꧹">>>>,
       <<44016, <<"꯰", "꯱", "꯲", "꯳", "꯴", "꯵", "꯶", "꯷", "꯸", "꯹">>>>
    >>
UnicodeDigitSet ==
    UNION {{UnicodeDigits[i][2][k] : k \in 1..10} : i \in 1..Len(UnicodeDigits)}

\* the whitespace of the C locale, which is all Python 2 knows in a str
IsAsciiSpace(c) ==
    c = " " \/ c = "\n" \/ c = "\t" \/ c = "\r" \/ c = "\f" \/ c = VT

\* the characters str.strip() removes: Python 3 strings are Unicode, and
\* the separators, next line, no-break space and the whitespace beyond
\* them are whitespace there
IsSpace(v, c) ==
    \/ IsAsciiSpace(c)
    \/ /\ v = 3
       /\ \/ c = FS \/ c = GS \/ c = RS \/ c = US \/ c = NEL \/ c = NBSP
          \/ c \in UnicodeSpaceSet

RECURSIVE lstrip_from(_, _, _)
lstrip_from(v, s, i) ==
    IF i <= Len(s) /\ IsSpace(v, s[i]) THEN lstrip_from(v, s, i + 1) ELSE i

RECURSIVE rstrip_to(_, _, _)
rstrip_to(v, s, n) ==
    IF n >= 1 /\ IsSpace(v, s[n]) THEN rstrip_to(v, s, n - 1) ELSE n

\* str.strip(): s without its leading and trailing whitespace
strip(v, s) == SubSeq(s, lstrip_from(v, s, 1), rstrip_to(v, s, Len(s)))

\* mutant of split: maxsplit is ignored
RECURSIVE split_unlimited(_, _, _)
split_unlimited(s, sep, maxsplit) ==
    LET i == find(s, sep) IN
    IF i = 0 THEN <<s>>
    ELSE <<SubSeq(s, 1, i - 1)>>
             \o split_unlimited(SubSeq(s, i + 1, Len(s)), sep, maxsplit)

\* str.split(sep, maxsplit) for a one-character sep; maxsplit = -1: no limit
RECURSIVE split(_, _, _)
split(s, sep, maxsplit) ==
    LET i == find(s, sep) IN
    IF i = 0 \/ maxsplit = 0 THEN <<s>>
    ELSE <<SubSeq(s, 1, i - 1)>> \o split(SubSeq(s, i + 1, Len(s)), sep, maxsplit - 1)

\* the value of a digit; a digit other than 0 to 9 has the value of its
\* place in its run of ten
DigitValue(c) ==
    CASE c = "0" -> 0 [] c = "1" -> 1 [] c = "2" -> 2 [] c = "3" -> 3
      [] c = "4" -> 4 [] c = "5" -> 5 [] c = "6" -> 6 [] c = "7" -> 7
      [] c = "8" -> 8 [] c = "9" -> 9
      [] OTHER ->
            (CHOOSE k \in 1..10 :
                \E i \in 1..Len(UnicodeDigits) : UnicodeDigits[i][2][k] = c) - 1

\* the characters int() reads as digits: Python 3 strings are Unicode, and
\* every decimal digit of Unicode is a digit there
IsDigit(v, c) == c \in Digits \/ (v = 3 /\ c \in UnicodeDigitSet)

\* the digits of an int literal; Python 3 also takes single underscores
\* between digits
IsDigitString(v, s) ==
    /\ s # <<>>
    /\ \A i \in 1..Len(s) :
          \/ IsDigit(v, s[i])
          \/ /\ v = 3
             /\ s[i] = "_"
             /\ 1 < i /\ i < Len(s)
             /\ IsDigit(v, s[i - 1]) /\ IsDigit(v, s[i + 1])

RECURSIVE DigitStringValue(_, _)
DigitStringValue(s, n) ==
    IF s = <<>> THEN n
    ELSE IF Head(s) = "_" THEN DigitStringValue(Tail(s), n)
         ELSE DigitStringValue(Tail(s), 10 * n + DigitValue(Head(s)))

\* the whitespace int() skips: Python 3 turns the non-ASCII whitespace of
\* its argument into spaces and then skips ASCII whitespace, so that the
\* separators 0x1c to 0x1f are not skipped
IsIntSpace(v, c) ==
    \/ IsAsciiSpace(c)
    \/ v = 3 /\ (c = NEL \/ c = NBSP \/ c \in UnicodeSpaceSet)

RECURSIVE int_skip(_, _, _)
int_skip(v, s, i) ==
    IF i <= Len(s) /\ IsIntSpace(v, s[i]) THEN int_skip(v, s, i + 1) ELSE i

RECURSIVE int_end(_, _, _)
int_end(v, s, n) ==
    IF n >= 1 /\ IsIntSpace(v, s[n]) THEN int_end(v, s, n - 1) ELSE n

\* where the sign of an int literal stands, or 0
int_sign(v, s) ==
    LET i == int_skip(v, s, 1) IN
    IF i <= Len(s) /\ (s[i] = "+" \/ s[i] = "-") THEN i ELSE 0

\* the digits of an int literal: what is left without the whitespace around
\* it and the sign.  Python 2 also skips whitespace between the sign and
\* the digits.
int_digits(v, s) ==
    LET i == int_skip(v, s, 1)
        j == IF int_sign(v, s) = 0 THEN i
             ELSE IF v = 2 THEN int_skip(v, s, i + 1)
             ELSE i + 1
    IN SubSeq(s, j, int_end(v, s, Len(s)))

\* the most digits int() of Python 3 converts (the default of
\* sys.set_int_max_str_digits), counted without the underscores
int_max_str_digits == 4300
int_str_digits(s) == Cardinality({i \in 1..Len(s) : s[i] # "_"})

\* whether int(s) returns (otherwise it raises ValueError)
int_ok(v, s) ==
    /\ IsDigitString(v, int_digits(v, s))
    /\ v = 3 => int_str_digits(int_digits(v, s)) <= int_max_str_digits

\* the digits of an int literal from the first that is not a zero on
int_significant(d) ==
    LET nz == {i \in 1..Len(d) : d[i] # "_" /\ DigitValue(d[i]) # 0} IN
    IF nz = {} THEN <<>>
    ELSE SubSeq(d, CHOOSE i \in nz : \A j \in nz : i <= j, Len(d))

\* int(s), where int_ok
int(v, s) ==
    LET n == DigitStringValue(int_significant(int_digits(v, s)), 0)
    IN IF int_sign(v, s) # 0 /\ s[int_sign(v, s)] = "-" THEN 0 - n ELSE n

-----------------------------------------------------------------------------
(* Session, timedelta_from_ms *)

\* Session.__init__
Session ==
    [session_id |-> None, state |-> None, local_sock_info |-> None,
     extras |-> {}, session_age |-> None, last_xmit_ago |-> None,
     backend |-> None]

\* a timedelta is modelled by what it holds: <<days, seconds, microseconds>>
\* with 0 <= seconds < 86400 and 0 <= microseconds < 1000000

\* timedelta.max.days: a timedelta of more days, or of fewer than the
\* opposite, cannot be made
MaxDeltaDays == 999999999

\* the timedelta of a whole number of milliseconds, normalised
timedelta_of_ms(ms) ==
    <<ms \div MsPerDay, (ms % MsPerDay) \div 1000, (ms % 1000) * 1000>>

\* microseconds_to_delta: the timedelta of a number of microseconds,
\* normalised
microseconds_to_delta(us) ==
    <<us \div (86400 * 1000000), (us \div 1000000) % 86400, us % 1000000>>

\* A float is modelled by the number it holds, as a pair <<m, e>> that
\* stands for m * 2^e.  FloatBits is the precision of a C double.
FloatBits == 53

\* the integer nearest to n / d, the even one of two equally near
round_half_even(n, d) ==
    LET q == n \div d
        r == n % d
    IN IF 2 * r < d THEN q
       ELSE IF 2 * r > d THEN q + 1
       ELSE IF q % 2 = 0 THEN q ELSE q + 1

\* a / (d * 2^e), as a fraction of integers
scaled_num(a, e) == IF e < 0 THEN a * 2^(0 - e) ELSE a
scaled_den(d, e) == IF e > 0 THEN d * 2^e ELSE d

\* the exponent e at which a / (d * 2^e) has FloatBits binary digits
RECURSIVE float_exponent(_, _, _)
float_exponent(a, d, e) ==
    IF scaled_num(a, e) >= scaled_den(d, e) * 2^FloatBits
    THEN float_exponent(a, d, e + 1)
    ELSE IF scaled_num(a, e) < scaled_den(d, e) * 2^(FloatBits - 1)
    THEN float_exponent(a, d, e - 1)
    ELSE e

\* the float nearest to n / d (d > 0): the result of a float operation whose
\* exact result is n / d
float_rounded(sign, a, d, e) ==
    <<sign * round_half_even(scaled_num(a, e), scaled_den(d, e)), e>>
float_nearest(n, d) ==
    IF n = 0 THEN <<0, 0>>
    ELSE IF n < 0
    THEN float_rounded(0 - 1, 0 - n, d, float_exponent(0 - n, d, 0))
    ELSE float_rounded(1, n, d, float_exponent(n, d, 0))

\* modf: the integral part of a float, towards zero, and what is left of
\* it, which is a float too
modf_int(x) ==
    IF x[2] >= 0 THEN x[1] * 2^x[2]
    ELSE IF x[1] < 0 THEN 0 - ((0 - x[1]) \div 2^(0 - x[2]))
    ELSE x[1] \div 2^(0 - x[2])
modf_frac(x) ==
    IF x[2] >= 0 THEN <<0, 0>>
    ELSE <<x[1] - modf_int(x) * 2^(0 - x[2]), x[2]>>

\* float * int, where the int is a float exactly
float_times(x, k) ==
    IF x[2] < 0 THEN float_nearest(x[1] * k, 2^(0 - x[2]))
    ELSE float_nearest(x[1] * k * 2^x[2], 1)

\* float + float, for floats that have no integral part
float_plus(x, y) ==
    LET e == IF x[2] < y[2] THEN x[2] ELSE y[2] IN
    float_nearest(x[1] * 2^(x[2] - e) + y[1] * 2^(y[2] - e), 2^(0 - e))

\* accum of the timedelta constructor on a float argument num worth factor
\* microseconds each: the whole microseconds it adds, and the fraction of a
\* microsecond it adds to leftover_us
accum_sum(whole_us, prod) ==
    [us |-> whole_us + modf_int(prod), leftover |-> modf_frac(prod)]
accum(num, factor) ==
    accum_sum(modf_int(num) * factor, float_times(modf_frac(num), factor))

\* timedelta(days, seconds) on two floats, in microseconds: the whole
\* microseconds of both, and leftover_us rounded to the nearest whole
\* number that makes the sum even when two are equally near
delta_rounded(x, leftover_us) ==
    IF leftover_us[2] >= 0 THEN x + modf_int(leftover_us)
    ELSE round_half_even(x * 2^(0 - leftover_us[2]) + leftover_us[1],
                         2^(0 - leftover_us[2]))
delta_sum(s, d) == delta_rounded(s.us + d.us, float_plus(s.leftover, d.leftover))
delta_new(days, seconds) ==
    delta_sum(accum(seconds, 1000000), accum(days, 86400 * 1000000))

\* the days from which on ms / 86400000, a float, no longer holds ms to
\* half a microsecond
FloatExactDays == 65536

\* timedelta(ms / 86400000, (ms % 86400000) / 1000.0) before its range is
\* checked.  In Python 2 ms / 86400000 on ints is floor division; in Python
\* 3 it is true division to a float, so the days argument is the whole of
\* ms, as a fraction of a day: up to FloatExactDays the result is ms plus
\* ms % 86400000 milliseconds, beyond that the float arithmetic of the
\* constructor shows.
timedelta_unchecked(v, ms) ==
    IF v = 2 THEN timedelta_of_ms(ms)
    ELSE IF /\ 0 - FloatExactDays <= ms \div MsPerDay
            /\ ms \div MsPerDay < FloatExactDays
    THEN timedelta_of_ms(ms + (ms % MsPerDay))
    ELSE microseconds_to_delta(
             delta_new(float_nearest(ms, MsPerDay),
                       float_nearest(ms % MsPerDay, 1000)))

\* timedelta_from_ms(ms): the timedelta, or OverflowError when its days are
\* beyond what a timedelta holds
timedelta_in_range(td) ==
    IF td[1] < 0 - MaxDeltaDays \/ td[1] > MaxDeltaDays
    THEN [raised |-> Some("OverflowError"), td |-> None]
    ELSE [raised |-> None, td |-> td]
timedelta_from_ms(v, ms) == timedelta_in_range(timedelta_unchecked(v, ms))

-----------------------------------------------------------------------------
(* load_sessions *)

\* sess.extras[key] = value
extras_set(extras, key, value) ==
    {p \in extras : p[1] # key} \cup {<<key, value>>}

\* `for kvpair in rest.split(' ')`: the pairs still to go.  Yields the
\* session, or the exception the body raised: ValueError from the tuple
\* unpacking and from int(), OverflowError from timedelta_from_ms.
RECURSIVE kv_loop(_, _, _)

\* the body of the loop for a duration: r is what timedelta_from_ms gave
kv_duration(v, s0, kvpairs, key, r) ==
    IF r.raised # None THEN [raised |-> r.raised, sess |-> s0]
    ELSE IF key = session_age_ms
    THEN kv_loop(v, [s0 EXCEPT !.session_age = Some(r.td)], Tail(kvpairs))
    ELSE kv_loop(v, [s0 EXCEPT !.last_xmit_ago = Some(r.td)], Tail(kvpairs))

kv_loop(v, s0, kvpairs) ==
    IF kvpairs = <<>> THEN [raised |-> None, sess |-> s0]
    ELSE
      LET kv == split(Head(kvpairs), EQ, 1) IN
      IF Len(kv) # 2
      THEN [raised |-> Some("ValueError"), sess |-> s0]  \* tuple unpacking
      ELSE
        LET key == kv[1]
            value == kv[2]
        IN
        IF key = session_age_ms THEN
            IF ~int_ok(v, value)
            THEN [raised |-> Some("ValueError"), sess |-> s0]
            ELSE kv_duration(v, s0, kvpairs, key,
                             timedelta_from_ms(v, int(v, value)))
        ELSE IF key = last_xmit_ago_ms THEN
            IF ~int_ok(v, value)
            THEN [raised |-> Some("ValueError"), sess |-> s0]
            ELSE kv_duration(v, s0, kvpairs, key,
                             timedelta_from_ms(v, int(v, value)))
        ELSE IF key = backend_name THEN
            kv_loop(v, [s0 EXCEPT !.backend = Some(value)], Tail(kvpairs))
        ELSE IF key \in extra_types THEN
            IF int_ok(v, value)
            THEN kv_loop(v, [s0 EXCEPT !.extras =
                                extras_set(@, key, <<"int", int(v, value)>>)],
                         Tail(kvpairs))
            ELSE [raised |-> Some("ValueError"), sess |-> s0]
        ELSE
            kv_loop(v, [s0 EXCEPT !.extras =
                           extras_set(@, key, <<"str", value>>)],
                    Tail(kvpairs))

\* mutant of load_line: an END line is skipped like a short line
load_line_no_break(v, line0) ==
    LET line == strip(v, line0)
        parts == split(line, SP, 3)
    IN
    IF line = END
    THEN [kind |-> "continue", sess |-> Session, raised |-> None]
    ELSE IF Len(parts) # 4
    THEN [kind |-> "continue", sess |-> Session, raised |-> None]
    ELSE
      LET s0 == [Session EXCEPT !.session_id = Some(parts[1]),
                                  !.state = Some(parts[2]),
                                  !.local_sock_info = Some(parts[3])]
          r == kv_loop(v, s0, split(parts[4], SP, -1))
      IN IF r.raised # None
         THEN [kind |-> "raise", sess |-> Session, raised |-> r.raised]
         ELSE [kind |-> "append", sess |-> r.sess, raised |-> None]

\* mutant of load_line: a short line ends the loop
load_line_short_breaks(v, line0) ==
    LET line == strip(v, line0)
        parts == split(line, SP, 3)
    IN
    IF line = END
    THEN [kind |-> "break", sess |-> Session, raised |-> None]
    ELSE IF Len(parts) # 4
    THEN [kind |-> "break", sess |-> Session, raised |-> None]
    ELSE
      LET s0 == [Session EXCEPT !.session_id = Some(parts[1]),
                                  !.state = Some(parts[2]),
                                  !.local_sock_info = Some(parts[3])]
          r == kv_loop(v, s0, split(parts[4], SP, -1))
      IN IF r.raised # None
         THEN [kind |-> "raise", sess |-> Session, raised |-> r.raised]
         ELSE [kind |-> "append", sess |-> r.sess, raised |-> None]

\* mutant of load_line: a malformed line is skipped instead of raising
load_line_swallowing(v, line0) ==
    LET line == strip(v, line0)
        parts == split(line, SP, 3)
    IN
    IF line = END
    THEN [kind |-> "break", sess |-> Session, raised |-> None]
    ELSE IF Len(parts) # 4
    THEN [kind |-> "continue", sess |-> Session, raised |-> None]
    ELSE
      LET s0 == [Session EXCEPT !.session_id = Some(parts[1]),
                                  !.state = Some(parts[2]),
                                  !.local_sock_info = Some(parts[3])]
          r == kv_loop(v, s0, split(parts[4], SP, -1))
      IN IF r.raised # None
         THEN [kind |-> "continue", sess |-> Session, raised |-> None]
         ELSE [kind |-> "append", sess |-> r.sess, raised |-> None]

\* the body of `for line in fh` on one line: "break", "continue", "append"
\* (with the session) or "raise" (with the exception)
load_line(v, line0) ==
    LET line == strip(v, line0)
        parts == split(line, SP, 3)
    IN
    IF line = END
    THEN [kind |-> "break", sess |-> Session, raised |-> None]
    ELSE IF Len(parts) # 4
    THEN [kind |-> "continue", sess |-> Session, raised |-> None]
    ELSE
      LET s0 == [Session EXCEPT !.session_id = Some(parts[1]),
                                  !.state = Some(parts[2]),
                                  !.local_sock_info = Some(parts[3])]
          r == kv_loop(v, s0, split(parts[4], SP, -1))
      IN IF r.raised # None
         THEN [kind |-> "raise", sess |-> Session, raised |-> r.raised]
         ELSE [kind |-> "append", sess |-> r.sess, raised |-> None]

\* where control goes when load_sessions returns or raises
after_load == IF prog = "reaper" THEN "gs_wait" ELSE "load_end"

\* one iteration of `for line in fh`
load_sessions_line ==
    /\ pc = "load"
    /\ pos < Len(stream)
    /\ LET r == load_line(py, stream[pos + 1]) IN
        /\ pos' = pos + 1
        /\ lineout' = Append(lineout, r.kind)
        /\ acc' = IF r.kind = "append" THEN Append(acc, r.sess) ELSE acc
        /\ exc' = r.raised
        /\ pc' = IF r.kind \in {"break", "raise"} THEN after_load ELSE "load"
        /\ events' = IF r.kind = "raise"
                     THEN Append(events, [ev |-> "raise", pass |-> 0, idx |-> 0, at |-> pc])
                     ELSE events
    /\ UNCHANGED <<py, prog, argv, call_ms, call_td, stream, sessions, pass, idx, stdout, cmds,
                   nopen, nopened, rc>>

\* the stream is exhausted: the for loop ends and load_sessions returns
load_sessions_eof ==
    /\ pc = "load"
    /\ pos = Len(stream)
    /\ pc' = after_load
    /\ UNCHANGED <<py, prog, argv, call_ms, call_td, stream, exc, pos, acc, lineout, sessions, pass,
                   idx, stdout, cmds, nopen, nopened, rc, events>>

-----------------------------------------------------------------------------
(* get_sessions *)

\* mutant of for_position: the list is walked from its end
for_position_reversed(n, i) == n + 1 - i

\* the list position the i-th iteration of `for sess in sessions` visits,
\* in a list of n sessions
for_position(n, i) == i

\* `sess` of the running for loop
sess_at == for_position(Len(sessions), idx)
sess == sessions[sess_at]

\* history: what happened (a row printed, a destroy command written, an
\* exception raised), in which loop, on which list position, at which place
Event(what) ==
    [ev |-> what, pass |-> pass, idx |-> IF pass = 0 THEN 0 ELSE sess_at,
     at |-> pc]
Raise(where) == Append(events, Event(where))

\* subprocess.Popen: the relay starts, or Popen raises OSError (before the
\* try statement, so nothing is waited for)
get_sessions_Popen ==
    /\ pc = "main"
    /\ \E started \in BOOLEAN :
        IF started
        THEN /\ pc' = "gs_write"
             /\ nopen' = nopen + 1
             /\ nopened' = nopened + 1
             /\ UNCHANGED <<exc, events>>
        ELSE /\ pc' = "failed"
             /\ exc' = Some("OSError")
             /\ events' = Raise("raise")
             /\ UNCHANGED <<nopen, nopened>>
    /\ UNCHANGED <<py, prog, argv, call_ms, call_td, stream, pos, acc, lineout, sessions, pass, idx,
                   stdout, cmds, rc>>

\* subproc.stdin.write(str) and close().  The pipe is a binary file: under
\* Python 3 writing a str raises TypeError.  Otherwise the command is
\* delivered, or the pipe fails with IOError.
pipe_write(v, delivered) ==
    IF v = 3 THEN Some("TypeError")
    ELSE IF delivered THEN None ELSE Some("IOError")

get_sessions_write ==
    /\ pc = "gs_write"
    /\ \E delivered \in BOOLEAN :
        LET e == pipe_write(py, delivered) IN
        /\ exc' = e
        /\ cmds' = IF e = None THEN Append(cmds, print_active_sessions) ELSE cmds
        /\ pc' = IF e = None THEN "load" ELSE "gs_wait"
        /\ events' = IF e = None THEN events ELSE Raise("raise")
    /\ UNCHANGED <<py, prog, argv, call_ms, call_td, stream, pos, acc, lineout, sessions, pass, idx,
                   stdout, nopen, nopened, rc>>

\* what wait() returns: the exit status of the relay, or the negated number
\* of the signal that ended it
ExitStatus == 0..255 \cup {0 - sig : sig \in 1..64}

\* finally: subproc.wait(); its return value is dropped
get_sessions_wait ==
    /\ pc = "gs_wait"
    /\ \E status \in ExitStatus : rc' = Some(status)
    /\ nopen' = nopen - 1
    /\ pc' = "gs_return"
    /\ UNCHANGED <<py, prog, argv, call_ms, call_td, stream, exc, pos, acc, lineout, sessions, pass,
                   idx, stdout, cmds, nopened, events>>

\* `return sessions`, or the exception in flight leaves get_sessions and,
\* uncaught in main, ends the run
get_sessions_return ==
    /\ pc = "gs_return"
    /\ IF exc = None
       THEN /\ sessions' = acc
            /\ pass' = 1
            /\ idx' = 1
            /\ pc' = "for"
       ELSE /\ pc' = "failed"
            /\ UNCHANGED <<sessions, pass, idx>>
    /\ rc' = None
    /\ UNCHANGED <<py, prog, argv, call_ms, call_td, stream, exc, pos, acc, lineout, stdout, cmds,
                   nopen, nopened, events>>

-----------------------------------------------------------------------------
(* print_session, destroy_session *)

\* print_session: the row printed, or the exception raised.  The row is
\* modelled by the six values formatted into it.  Python 3 refuses a format
\* width for None and for timedelta, one of which session_age always is.
print_session(v, s) ==
    LET p == split(s.local_sock_info[1], COMMA, 1) IN
    IF Len(p) # 2
    THEN [raised |-> Some("ValueError"), row |-> <<>>]      \* tuple unpacking
    ELSE IF v = 3
    THEN [raised |-> Some("TypeError"), row |-> <<>>]
    ELSE [raised |-> None,
          row |-> <<s.session_id, s.state, s.session_age,
                    s.last_xmit_ago, s.backend, p[2]>>]

\* "destroy-session {}\n".format(session_id)
destroy_command(session_id) == destroy_session_prefix \o session_id \o <<"\n">>

destroy_session_Popen ==
    /\ pc = "ds_popen"
    /\ \E started \in BOOLEAN :
        IF started
        THEN /\ pc' = "ds_write"
             /\ nopen' = nopen + 1
             /\ nopened' = nopened + 1
             /\ UNCHANGED <<exc, events>>
        ELSE /\ pc' = "failed"
             /\ exc' = Some("OSError")
             /\ events' = Raise("raise")
             /\ UNCHANGED <<nopen, nopened>>
    /\ UNCHANGED <<py, prog, argv, call_ms, call_td, stream, pos, acc, lineout, sessions, pass, idx,
                   stdout, cmds, rc>>

destroy_session_write ==
    /\ pc = "ds_write"
    /\ \E delivered \in BOOLEAN :
        LET e == pipe_write(py, delivered) IN
        /\ exc' = e
        /\ cmds' = IF e = None
                   THEN Append(cmds, destroy_command(sess.session_id[1]))
                   ELSE cmds
        /\ pc' = IF e = None THEN "ds_read" ELSE "ds_wait"
        /\ events' = IF e = None
                     THEN Append(events, Event("destroy"))
                     ELSE Raise("raise")
    /\ UNCHANGED <<py, prog, argv, call_ms, call_td, stream, pos, acc, lineout, sessions, pass, idx,
                   stdout, nopen, nopened, rc>>

\* mutant of destroy_session_read: no finally clause, a failed read leaves
\* destroy_session without waiting for the relay
destroy_session_read_no_finally ==
    /\ pc = "ds_read"
    /\ \E readable \in BOOLEAN :
        /\ exc' = IF readable THEN None ELSE Some("IOError")
        /\ events' = IF readable THEN events ELSE Raise("raise")
        /\ pc' = IF readable THEN "ds_wait" ELSE "failed"
    /\ UNCHANGED <<py, prog, argv, call_ms, call_td, stream, pos, acc, lineout, sessions, pass, idx,
                   stdout, cmds, nopen, nopened, rc>>

\* response = subproc.stdout.read(): the response is dropped; the read may
\* fail with IOError
destroy_session_read ==
    /\ pc = "ds_read"
    /\ \E readable \in BOOLEAN :
        /\ exc' = IF readable THEN None ELSE Some("IOError")
        /\ events' = IF readable THEN events ELSE Raise("raise")
    /\ pc' = "ds_wait"
    /\ UNCHANGED <<py, prog, argv, call_ms, call_td, stream, pos, acc, lineout, sessions, pass, idx,
                   stdout, cmds, nopen, nopened, rc>>

\* mutant of destroy_session_wait: the record is marked in the list
destroy_session_wait_marking ==
    /\ pc = "ds_wait"
    /\ \E status \in ExitStatus : rc' = Some(status)
    /\ nopen' = nopen - 1
    /\ pc' = "ds_return"
    /\ sessions' = [sessions EXCEPT ![sess_at].state = Some(<<"d","e","s","t","r","o","y","e","d">>)]
    /\ UNCHANGED <<py, prog, argv, call_ms, call_td, stream, exc, pos, acc, lineout, pass,
                   idx, stdout, cmds, nopened, events>>

\* finally: subproc.wait(); its return value is dropped
destroy_session_wait ==
    /\ pc = "ds_wait"
    /\ \E status \in ExitStatus : rc' = Some(status)
    /\ nopen' = nopen - 1
    /\ pc' = "ds_return"
    /\ UNCHANGED <<py, prog, argv, call_ms, call_td, stream, exc, pos, acc, lineout, sessions, pass,
                   idx, stdout, cmds, nopened, events>>

\* mutant of destroy_session_return: an exception raised in destroy_session
\* is swallowed and the loop goes on
destroy_session_return_swallowing ==
    /\ pc = "ds_return"
    /\ idx' = idx + 1
    /\ pc' = "for"
    /\ rc' = None
    /\ UNCHANGED <<py, prog, argv, call_ms, call_td, stream, exc, pos, acc, lineout, sessions, pass,
                   stdout, cmds, nopen, nopened, events>>

\* destroy_session returns to the for loop, or the exception in flight
\* leaves it and, uncaught in main, ends the run
destroy_session_return ==
    /\ pc = "ds_return"
    /\ IF exc = None
       THEN /\ idx' = idx + 1
            /\ pc' = "for"
       ELSE /\ pc' = "failed"
            /\ idx' = idx
    /\ rc' = None
    /\ UNCHANGED <<py, prog, argv, call_ms, call_td, stream, exc, pos, acc, lineout, sessions, pass,
                   stdout, cmds, nopen, nopened, events>>

-----------------------------------------------------------------------------
(* main *)

\* mutant of loop_state: the first loop takes the connected sessions
loop_state_swapped(p) == IF p = 1 THEN connected ELSE shutdown_write

\* the state and the age limit the pass-th for loop of main tests
loop_state(p) == IF p = 1 THEN shutdown_write ELSE connected
loop_limit(p) == IF p = 1 THEN TenMinutes ELSE OneHour

\* mutant of timedelta_lt: the comparison is not strict
timedelta_le(a, b) ==
    \/ a[1] < b[1]
    \/ a[1] = b[1] /\ a[2] < b[2]
    \/ a[1] = b[1] /\ a[2] = b[2] /\ a[3] <= b[3]

\* timedelta < timedelta, on days, seconds and microseconds; comparing a
\* timedelta with None raises TypeError
timedelta_lt(a, b) ==
    \/ a[1] < b[1]
    \/ a[1] = b[1] /\ a[2] < b[2]
    \/ a[1] = b[1] /\ a[2] = b[2] /\ a[3] < b[3]

\* mutant of main_if: the state of the session is not tested
main_if_any_state(p, s) ==
    IF s.last_xmit_ago = None THEN "raise"
    ELSE IF timedelta_lt(loop_limit(p), s.last_xmit_ago[1]) THEN "select"
    ELSE "skip"

\* mutant of main_if: a session without last_xmit_ago is passed over
main_if_unset_skipped(p, s) ==
    IF s.state # Some(loop_state(p)) THEN "skip"
    ELSE IF s.last_xmit_ago = None THEN "skip"
    ELSE IF timedelta_lt(loop_limit(p), s.last_xmit_ago[1]) THEN "select"
    ELSE "skip"

\* the `if` of the p-th loop on sess: "select", "skip", or "raise" when the
\* comparison with an unset last_xmit_ago is evaluated
main_if(p, s) ==
    IF s.state # Some(loop_state(p)) THEN "skip"
    ELSE IF s.last_xmit_ago = None THEN "raise"
    ELSE IF timedelta_lt(loop_limit(p), s.last_xmit_ago[1]) THEN "select"
    ELSE "skip"

\* `for sess in sessions: if ...` on the next session of the running loop
main_for_next ==
    /\ pc = "for"
    /\ idx <= Len(sessions)
    /\ LET t == main_if(pass, sess) IN
        /\ pc' = CASE t = "select" -> "print"
                   [] t = "skip" -> "for"
                   [] t = "raise" -> "failed"
        /\ idx' = IF t = "skip" THEN idx + 1 ELSE idx
        /\ exc' = IF t = "raise" THEN Some("TypeError") ELSE exc
        /\ events' = IF t = "raise" THEN Raise("raise") ELSE events
    /\ UNCHANGED <<py, prog, argv, call_ms, call_td, stream, pos, acc, lineout, sessions, pass,
                   stdout, cmds, nopen, nopened, rc>>

\* mutant of main_for_end: the listing is requested again between the loops
main_for_end_refetching ==
    /\ pc = "for"
    /\ idx > Len(sessions)
    /\ IF pass = 1
       THEN /\ pass' = 2
            /\ idx' = 1
            /\ pc' = "for"
            /\ cmds' = Append(cmds, print_active_sessions)
       ELSE /\ pc' = "done"
            /\ UNCHANGED <<pass, idx, cmds>>
    /\ UNCHANGED <<py, prog, argv, call_ms, call_td, stream, exc, pos, acc, lineout, sessions,
                   stdout, nopen, nopened, rc, events>>

\* the running loop is exhausted: the second loop starts, or main returns
main_for_end ==
    /\ pc = "for"
    /\ idx > Len(sessions)
    /\ IF pass = 1
       THEN /\ pass' = 2
            /\ idx' = 1
            /\ pc' = "for"
       ELSE /\ pc' = "done"
            /\ UNCHANGED <<pass, idx>>
    /\ UNCHANGED <<py, prog, argv, call_ms, call_td, stream, exc, pos, acc, lineout, sessions,
                   stdout, cmds, nopen, nopened, rc, events>>

\* mutant of main_print_session: the row is not printed
main_print_session_skipped ==
    /\ pc = "print"
    /\ pc' = "ds_popen"
    /\ UNCHANGED <<py, prog, argv, call_ms, call_td, stream, exc, pos, acc, lineout, sessions, pass,
                   idx, stdout, cmds, nopen, nopened, rc, events>>

\* print_session(sess), then on to destroy_session
main_print_session ==
    /\ pc = "print"
    /\ LET r == print_session(py, sess) IN
        /\ exc' = r.raised
        /\ stdout' = IF r.raised = None THEN Append(stdout, r.row) ELSE stdout
        /\ pc' = IF r.raised = None THEN "ds_popen" ELSE "failed"
        /\ events' = IF r.raised = None
                     THEN Append(events, Event("print"))
                     ELSE Raise("raise")
    /\ UNCHANGED <<py, prog, argv, call_ms, call_td, stream, pos, acc, lineout, sessions, pass, idx,
                   cmds, nopen, nopened, rc>>

-----------------------------------------------------------------------------
(* The attributes of the objects attrgetter can reach from a Session *)

\* the attributes every object has: under both interpreters, and under
\* Python 3 only
object_names(v) ==
    {<<"_","_","c","l","a","s","s","_","_">>, <<"_","_","d","e","l","a","t","t","r","_","_">>, <<"_","_","d","o","c","_","_">>, <<"_","_","f","o","r","m","a","t","_","_">>,
     <<"_","_","g","e","t","a","t","t","r","i","b","u","t","e","_","_">>, <<"_","_","h","a","s","h","_","_">>, <<"_","_","i","n","i","t","_","_">>, <<"_","_","n","e","w","_","_">>, <<"_","_","r","e","d","u","c","e","_","_">>,
     <<"_","_","r","e","d","u","c","e","_","e","x","_","_">>, <<"_","_","r","e","p","r","_","_">>, <<"_","_","s","e","t","a","t","t","r","_","_">>, <<"_","_","s","i","z","e","o","f","_","_">>, <<"_","_","s","t","r","_","_">>,
     <<"_","_","s","u","b","c","l","a","s","s","h","o","o","k","_","_">>}
      \cup IF v = 3
           THEN {<<"_","_","d","i","r","_","_">>, <<"_","_","e","q","_","_">>, <<"_","_","g","e","_","_">>, <<"_","_","g","e","t","s","t","a","t","e","_","_">>, <<"_","_","g","t","_","_">>,
                <<"_","_","i","n","i","t","_","s","u","b","c","l","a","s","s","_","_">>, <<"_","_","l","e","_","_">>, <<"_","_","l","t","_","_">>, <<"_","_","n","e","_","_">>}
           ELSE {}

\* dir of a Session beyond those of every object; name in dir(x)
Session_names ==
    {<<"_","_","d","i","c","t","_","_">>, <<"_","_","m","o","d","u","l","e","_","_">>, <<"_","_","w","e","a","k","r","e","f","_","_">>, <<"b","a","c","k","e","n","d">>, <<"e","x","t","r","a","s">>,
     <<"l","a","s","t","_","x","m","i","t","_","a","g","o">>, <<"l","o","c","a","l","_","s","o","c","k","_","i","n","f","o">>, <<"s","e","s","s","i","o","n","_","a","g","e">>, <<"s","e","s","s","i","o","n","_","i","d">>,
     <<"s","t","a","t","e">>}
in_dir_Session(v, name) == name \in object_names(v) \/ name \in Session_names

\* name in dir(None)
in_dir_NoneType(v, name) ==
    name \in object_names(v) \/ (v = 3 /\ name = <<"_","_","b","o","o","l","_","_">>)

\* dir of a str beyond those of every object: under both interpreters,
\* under Python 2 only, under Python 3 only; name in dir(x)
str_names(v) ==
    {<<"_","_","a","d","d","_","_">>, <<"_","_","c","o","n","t","a","i","n","s","_","_">>, <<"_","_","g","e","t","i","t","e","m","_","_">>, <<"_","_","g","e","t","n","e","w","a","r","g","s","_","_">>,
     <<"_","_","l","e","n","_","_">>, <<"_","_","m","o","d","_","_">>, <<"_","_","m","u","l","_","_">>, <<"_","_","r","m","o","d","_","_">>, <<"_","_","r","m","u","l","_","_">>,
     <<"c","a","p","i","t","a","l","i","z","e">>, <<"c","e","n","t","e","r">>, <<"c","o","u","n","t">>, <<"e","n","c","o","d","e">>, <<"e","n","d","s","w","i","t","h">>, <<"e","x","p","a","n","d","t","a","b","s">>,
     <<"f","i","n","d">>, <<"f","o","r","m","a","t">>, <<"i","n","d","e","x">>, <<"i","s","a","l","n","u","m">>, <<"i","s","a","l","p","h","a">>, <<"i","s","d","i","g","i","t">>,
     <<"i","s","l","o","w","e","r">>, <<"i","s","s","p","a","c","e">>, <<"i","s","t","i","t","l","e">>, <<"i","s","u","p","p","e","r">>, <<"j","o","i","n">>, <<"l","j","u","s","t">>,
     <<"l","o","w","e","r">>, <<"l","s","t","r","i","p">>, <<"p","a","r","t","i","t","i","o","n">>, <<"r","e","p","l","a","c","e">>, <<"r","f","i","n","d">>, <<"r","i","n","d","e","x">>,
     <<"r","j","u","s","t">>, <<"r","p","a","r","t","i","t","i","o","n">>, <<"r","s","p","l","i","t">>, <<"r","s","t","r","i","p">>, <<"s","p","l","i","t">>, <<"s","p","l","i","t","l","i","n","e","s">>,
     <<"s","t","a","r","t","s","w","i","t","h">>, <<"s","t","r","i","p">>, <<"s","w","a","p","c","a","s","e">>, <<"t","i","t","l","e">>, <<"t","r","a","n","s","l","a","t","e">>, <<"u","p","p","e","r">>,
     <<"z","f","i","l","l">>}
      \cup IF v = 2
           THEN {<<"_","_","e","q","_","_">>, <<"_","_","g","e","_","_">>, <<"_","_","g","e","t","s","l","i","c","e","_","_">>, <<"_","_","g","t","_","_">>, <<"_","_","l","e","_","_">>, <<"_","_","l","t","_","_">>,
                <<"_","_","n","e","_","_">>, <<"_","f","o","r","m","a","t","t","e","r","_","f","i","e","l","d","_","n","a","m","e","_","s","p","l","i","t">>, <<"_","f","o","r","m","a","t","t","e","r","_","p","a","r","s","e","r">>,
                <<"d","e","c","o","d","e">>}
           ELSE {<<"_","_","i","t","e","r","_","_">>, <<"c","a","s","e","f","o","l","d">>, <<"f","o","r","m","a","t","_","m","a","p">>, <<"i","s","a","s","c","i","i">>, <<"i","s","d","e","c","i","m","a","l">>,
                <<"i","s","i","d","e","n","t","i","f","i","e","r">>, <<"i","s","n","u","m","e","r","i","c">>, <<"i","s","p","r","i","n","t","a","b","l","e">>, <<"m","a","k","e","t","r","a","n","s">>,
                <<"r","e","m","o","v","e","p","r","e","f","i","x">>, <<"r","e","m","o","v","e","s","u","f","f","i","x">>}
in_dir_str(v, name) == name \in object_names(v) \/ name \in str_names(v)

\* dir of an int beyond those of every object: under both interpreters,
\* under Python 2 only, under Python 3 only; name in dir(x)
int_names(v) ==
    {<<"_","_","a","b","s","_","_">>, <<"_","_","a","d","d","_","_">>, <<"_","_","a","n","d","_","_">>, <<"_","_","d","i","v","m","o","d","_","_">>, <<"_","_","f","l","o","a","t","_","_">>,
     <<"_","_","f","l","o","o","r","d","i","v","_","_">>, <<"_","_","g","e","t","n","e","w","a","r","g","s","_","_">>, <<"_","_","i","n","d","e","x","_","_">>, <<"_","_","i","n","t","_","_">>,
     <<"_","_","i","n","v","e","r","t","_","_">>, <<"_","_","l","s","h","i","f","t","_","_">>, <<"_","_","m","o","d","_","_">>, <<"_","_","m","u","l","_","_">>, <<"_","_","n","e","g","_","_">>,
     <<"_","_","o","r","_","_">>, <<"_","_","p","o","s","_","_">>, <<"_","_","p","o","w","_","_">>, <<"_","_","r","a","d","d","_","_">>, <<"_","_","r","a","n","d","_","_">>,
     <<"_","_","r","d","i","v","m","o","d","_","_">>, <<"_","_","r","f","l","o","o","r","d","i","v","_","_">>, <<"_","_","r","l","s","h","i","f","t","_","_">>, <<"_","_","r","m","o","d","_","_">>,
     <<"_","_","r","m","u","l","_","_">>, <<"_","_","r","o","r","_","_">>, <<"_","_","r","p","o","w","_","_">>, <<"_","_","r","r","s","h","i","f","t","_","_">>, <<"_","_","r","s","h","i","f","t","_","_">>,
     <<"_","_","r","s","u","b","_","_">>, <<"_","_","r","t","r","u","e","d","i","v","_","_">>, <<"_","_","r","x","o","r","_","_">>, <<"_","_","s","u","b","_","_">>, <<"_","_","t","r","u","e","d","i","v","_","_">>,
     <<"_","_","t","r","u","n","c","_","_">>, <<"_","_","x","o","r","_","_">>, <<"b","i","t","_","l","e","n","g","t","h">>, <<"c","o","n","j","u","g","a","t","e">>, <<"d","e","n","o","m","i","n","a","t","o","r">>,
     <<"i","m","a","g">>, <<"n","u","m","e","r","a","t","o","r">>, <<"r","e","a","l">>}
      \cup IF v = 2
           THEN {<<"_","_","c","m","p","_","_">>, <<"_","_","c","o","e","r","c","e","_","_">>, <<"_","_","d","i","v","_","_">>, <<"_","_","h","e","x","_","_">>, <<"_","_","l","o","n","g","_","_">>,
                <<"_","_","n","o","n","z","e","r","o","_","_">>, <<"_","_","o","c","t","_","_">>, <<"_","_","r","d","i","v","_","_">>}
           ELSE {<<"_","_","b","o","o","l","_","_">>, <<"_","_","c","e","i","l","_","_">>, <<"_","_","f","l","o","o","r","_","_">>, <<"_","_","r","o","u","n","d","_","_">>,
                <<"a","s","_","i","n","t","e","g","e","r","_","r","a","t","i","o">>, <<"b","i","t","_","c","o","u","n","t">>, <<"f","r","o","m","_","b","y","t","e","s">>, <<"t","o","_","b","y","t","e","s">>}
in_dir_int(v, name) == name \in object_names(v) \/ name \in int_names(v)

\* dir of a timedelta beyond those of every object: under both interpreters,
\* under Python 2 only, under Python 3 only; name in dir(x)
timedelta_names(v) ==
    {<<"_","_","a","b","s","_","_">>, <<"_","_","a","d","d","_","_">>, <<"_","_","f","l","o","o","r","d","i","v","_","_">>, <<"_","_","m","u","l","_","_">>, <<"_","_","n","e","g","_","_">>,
     <<"_","_","p","o","s","_","_">>, <<"_","_","r","a","d","d","_","_">>, <<"_","_","r","f","l","o","o","r","d","i","v","_","_">>, <<"_","_","r","m","u","l","_","_">>, <<"_","_","r","s","u","b","_","_">>,
     <<"_","_","s","u","b","_","_">>, <<"d","a","y","s">>, <<"m","a","x">>, <<"m","i","c","r","o","s","e","c","o","n","d","s">>, <<"m","i","n">>, <<"r","e","s","o","l","u","t","i","o","n">>,
     <<"s","e","c","o","n","d","s">>, <<"t","o","t","a","l","_","s","e","c","o","n","d","s">>}
      \cup IF v = 2
           THEN {<<"_","_","d","i","v","_","_">>, <<"_","_","e","q","_","_">>, <<"_","_","g","e","_","_">>, <<"_","_","g","t","_","_">>, <<"_","_","l","e","_","_">>, <<"_","_","l","t","_","_">>,
                <<"_","_","n","e","_","_">>, <<"_","_","n","o","n","z","e","r","o","_","_">>, <<"_","_","r","d","i","v","_","_">>}
           ELSE {<<"_","_","b","o","o","l","_","_">>, <<"_","_","d","i","v","m","o","d","_","_">>, <<"_","_","m","o","d","_","_">>, <<"_","_","r","d","i","v","m","o","d","_","_">>, <<"_","_","r","m","o","d","_","_">>,
                <<"_","_","r","t","r","u","e","d","i","v","_","_">>, <<"_","_","t","r","u","e","d","i","v","_","_">>}
in_dir_timedelta(v, name) == name \in object_names(v) \/ name \in timedelta_names(v)

\* dir of a dict beyond those of every object: under both interpreters,
\* under Python 2 only, under Python 3 only; name in dir(x)
dict_names(v) ==
    {<<"_","_","c","o","n","t","a","i","n","s","_","_">>, <<"_","_","d","e","l","i","t","e","m","_","_">>, <<"_","_","g","e","t","i","t","e","m","_","_">>, <<"_","_","i","t","e","r","_","_">>, <<"_","_","l","e","n","_","_">>,
     <<"_","_","s","e","t","i","t","e","m","_","_">>, <<"c","l","e","a","r">>, <<"c","o","p","y">>, <<"f","r","o","m","k","e","y","s">>, <<"g","e","t">>, <<"i","t","e","m","s">>, <<"k","e","y","s">>,
     <<"p","o","p">>, <<"p","o","p","i","t","e","m">>, <<"s","e","t","d","e","f","a","u","l","t">>, <<"u","p","d","a","t","e">>, <<"v","a","l","u","e","s">>}
      \cup IF v = 2
           THEN {<<"_","_","c","m","p","_","_">>, <<"_","_","e","q","_","_">>, <<"_","_","g","e","_","_">>, <<"_","_","g","t","_","_">>, <<"_","_","l","e","_","_">>, <<"_","_","l","t","_","_">>,
                <<"_","_","n","e","_","_">>, <<"h","a","s","_","k","e","y">>, <<"i","t","e","r","i","t","e","m","s">>, <<"i","t","e","r","k","e","y","s">>, <<"i","t","e","r","v","a","l","u","e","s">>,
                <<"v","i","e","w","i","t","e","m","s">>, <<"v","i","e","w","k","e","y","s">>, <<"v","i","e","w","v","a","l","u","e","s">>}
           ELSE {<<"_","_","c","l","a","s","s","_","g","e","t","i","t","e","m","_","_">>, <<"_","_","i","o","r","_","_">>, <<"_","_","o","r","_","_">>, <<"_","_","r","e","v","e","r","s","e","d","_","_">>, <<"_","_","r","o","r","_","_">>}
in_dir_dict(v, name) == name \in object_names(v) \/ name \in dict_names(v)


-----------------------------------------------------------------------------
(* The values an attribute of a Session can hold *)

\* the characters with code points 32 to 95 and 97 to 126, in code point
\* order
PrintableLow ==
    <<
       " ", "!", "\"", "#", "$", "%", "&", "'", "(", ")", "*", "+",
       ",", "-", ".", "/", "0", "1", "2", "3", "4", "5", "6", "7",
       "8", "9", ":", ";", "<", "=", ">", "?", "@", "A", "B", "C",
       "D", "E", "F", "G", "H", "I", "J", "K", "L", "M", "N", "O",
       "P", "Q", "R", "S", "T", "U", "V", "W", "X", "Y", "Z", "[",
       "\\", "]", "^", "_"
    >>
PrintableHigh ==
    <<
       "a", "b", "c", "d", "e", "f", "g", "h", "i", "j", "k", "l",
       "m", "n", "o", "p", "q", "r", "s", "t", "u", "v", "w", "x",
       "y", "z", "{", "|", "}", "~"
    >>

\* ord(c)
ord(c) ==
    CASE c = "\t" -> 9
      [] c = "\n" -> 10
      [] c = "\f" -> 12
      [] c = "\r" -> 13
      [] c = VT -> 11
      [] c = FS -> 28
      [] c = GS -> 29
      [] c = RS -> 30
      [] c = US -> 31
      [] c = NEL -> 133
      [] c = NBSP -> 160
      [] \E i \in 1..Len(PrintableLow) : PrintableLow[i] = c ->
            31 + (CHOOSE i \in 1..Len(PrintableLow) : PrintableLow[i] = c)
      [] \E i \in 1..Len(PrintableHigh) : PrintableHigh[i] = c ->
            96 + (CHOOSE i \in 1..Len(PrintableHigh) : PrintableHigh[i] = c)
      [] c \in UnicodeSpaceSet ->
            UnicodeSpaces[CHOOSE i \in 1..Len(UnicodeSpaces) :
                              UnicodeSpaces[i][1] = c][2]
      [] c \in UnicodeDigitSet ->
            LET i == CHOOSE i \in 1..Len(UnicodeDigits) :
                         \E k \in 1..10 : UnicodeDigits[i][2][k] = c
            IN UnicodeDigits[i][1] + DigitValue(c)

\* str < str: the first differing character decides, then the length
str_lt(a, b) ==
    LET n == IF Len(a) < Len(b) THEN Len(a) ELSE Len(b)
        diff == {i \in 1..n : a[i] # b[i]}
    IN IF diff = {}
       THEN Len(a) < Len(b)
       ELSE LET i == CHOOSE i \in diff : \A j \in diff : i <= j
            IN ord(a[i]) < ord(b[i])

\* a Python value with its type: "None", "str", "int", "timedelta", "dict",
\* "Session", "type" (a class, by its name), "tuple" (of classes, by their
\* names) or "callable" (a bound method, by its name and the object it is
\* bound to)
Value(t, x) == [t |-> t, v |-> x]
NoneValue == Value("None", 0)
Optional(t, o) == IF o = None THEN NoneValue ELSE Value(t, o[1])
Method(name, x) == Value("callable", [name |-> name, self |-> x])

\* the keys of a dict, and d[k]; a dict is a set of pairs <<key, <<type,
\* value>>>>
dict_keys(d) == {p[1] : p \in d}
dict_get(d, k) == (CHOOSE p \in d : p[1] = k)[2]
dict_value(d, k) == Value(dict_get(d, k)[1], dict_get(d, k)[2])

\* Python 2, characterize(a, b): the keys of a that b lacks or maps to
\* another value; the smallest of them is the one that counts
dict_diff(a, b) ==
    {k \in dict_keys(a) : k \notin dict_keys(b) \/ dict_get(a, k) # dict_get(b, k)}
str_min(S) == CHOOSE k \in S : \A j \in S : j = k \/ str_lt(k, j)

\* Python 2, dict_compare: whether the values under the smallest differing
\* keys are what decides between two dicts
dict_values_decide(a, b) ==
    /\ Cardinality(a) = Cardinality(b)
    /\ dict_diff(a, b) # {}
    /\ str_min(dict_diff(a, b)) = str_min(dict_diff(b, a))

\* the value of a under its smallest differing key
dict_deciding(a, b) == dict_value(a, str_min(dict_diff(a, b)))

-----------------------------------------------------------------------------
(* operator.attrgetter *)

\* the attributes Session.__init__ sets
Session_fields ==
    <<<<"s","e","s","s","i","o","n","_","i","d">>, <<"s","t","a","t","e">>, <<"l","o","c","a","l","_","s","o","c","k","_","i","n","f","o">>, <<"e","x","t","r","a","s">>, <<"s","e","s","s","i","o","n","_","a","g","e">>,
      <<"l","a","s","t","_","x","m","i","t","_","a","g","o">>, <<"b","a","c","k","e","n","d">>>>

\* sess.<field>
Session_field(s, name) ==
    CASE name = <<"s","e","s","s","i","o","n","_","i","d">> -> Optional("str", s.session_id)
      [] name = <<"s","t","a","t","e">> -> Optional("str", s.state)
      [] name = <<"l","o","c","a","l","_","s","o","c","k","_","i","n","f","o">> -> Optional("str", s.local_sock_info)
      [] name = <<"e","x","t","r","a","s">> -> Value("dict", s.extras)
      [] name = <<"s","e","s","s","i","o","n","_","a","g","e">> -> Optional("timedelta", s.session_age)
      [] name = <<"l","a","s","t","_","x","m","i","t","_","a","g","o">> -> Optional("timedelta", s.last_xmit_ago)
      [] name = <<"b","a","c","k","e","n","d">> -> Optional("str", s.backend)

\* sess.__dict__
Session_dict(s) ==
    {<<Session_fields[i],
       <<Session_field(s, Session_fields[i]).t,
         Session_field(s, Session_fields[i]).v>>>> :
        i \in 1..Len(Session_fields)}

\* type(x).__name__
type_name(x) ==
    CASE x.t = "None" -> <<"N","o","n","e","T","y","p","e">>
      [] x.t = "str" -> <<"s","t","r">>
      [] x.t = "int" -> <<"i","n","t">>
      [] x.t = "timedelta" -> <<"t","i","m","e","d","e","l","t","a">>
      [] x.t = "dict" -> <<"d","i","c","t">>
      [] x.t = "Session" -> <<"S","e","s","s","i","o","n">>
      [] x.t = "type" -> <<"t","y","p","e">>
      [] x.t = "tuple" -> <<"t","u","p","l","e">>

\* hasattr(x, name), for a record and the values reached from one
hasattr(v, x, name) ==
    CASE x.t = "None" -> in_dir_NoneType(v, name)
      [] x.t = "str" -> in_dir_str(v, name)
      [] x.t = "int" -> in_dir_int(v, name)
      [] x.t = "timedelta" -> in_dir_timedelta(v, name)
      [] x.t = "dict" -> in_dir_dict(v, name)
      [] x.t = "Session" -> in_dir_Session(v, name)

\* the docstring of the type named tn, of which the first line is kept;
\* Session has none, nor has the type of None
type_doc(v, tn) ==
    CASE tn = <<"s","t","r">> ->
            Value("str", IF v = 2 THEN <<"s","t","r","(","o","b","j","e","c","t","=","'","'",")"," ","-",">"," ","s","t","r","i","n","g">>
                         ELSE <<"s","t","r","(","o","b","j","e","c","t","=","'","'",")"," ","-",">"," ","s","t","r">>)
      [] tn = <<"i","n","t">> ->
            Value("str", IF v = 2 THEN <<"i","n","t","(","x","=","0",")"," ","-",">"," ","i","n","t"," ","o","r"," ","l","o","n","g">>
                         ELSE <<"i","n","t","(","[","x","]",")"," ","-",">"," ","i","n","t","e","g","e","r">>)
      [] tn = <<"t","i","m","e","d","e","l","t","a">> ->
            Value("str", <<"D","i","f","f","e","r","e","n","c","e"," ","b","e","t","w","e","e","n"," ","t","w","o"," ","d","a","t","e","t","i","m","e"," ","v","a","l","u","e","s",".">>)
      [] tn = <<"d","i","c","t">> -> Value("str", <<"d","i","c","t","(",")"," ","-",">"," ","n","e","w"," ","e","m","p","t","y"," ","d","i","c","t","i","o","n","a","r","y">>)
      [] tn = <<"t","y","p","e">> -> Value("str", <<"t","y","p","e","(","o","b","j","e","c","t",")"," ","-",">"," ","t","h","e"," ","o","b","j","e","c","t","'","s"," ","t","y","p","e">>)
      [] tn = <<"o","b","j","e","c","t">> ->
            Value("str", IF v = 2 THEN <<"T","h","e"," ","m","o","s","t"," ","b","a","s","e"," ","t","y","p","e">>
                         ELSE <<"T","h","e"," ","b","a","s","e"," ","c","l","a","s","s"," ","o","f"," ","t","h","e"," ","c","l","a","s","s"," ","h","i","e","r","a","r","c","h","y",".">>)
      [] tn = <<"b","a","s","e","s","t","r","i","n","g">> ->
            Value("str", <<"T","y","p","e"," ","b","a","s","e","s","t","r","i","n","g"," ","c","a","n","n","o","t"," ","b","e"," ","i","n","s","t","a","n","t","i","a","t","e","d",";"," ","i","t"," ","i","s"," ","t","h","e"," ","b","a","s","e"," ","f","o","r"," ","s","t","r"," ","a","n","d"," ","u","n","i","c","o","d","e",".">>)
      [] OTHER -> NoneValue

\* the module the type named tn is defined in; the listing tool runs as
\* the main module
type_module(v, tn) ==
    CASE tn = <<"S","e","s","s","i","o","n">> -> <<"_","_","m","a","i","n","_","_">>
      [] tn = <<"t","i","m","e","d","e","l","t","a">> -> <<"d","a","t","e","t","i","m","e">>
      [] OTHER -> IF v = 2 THEN <<"_","_","b","u","i","l","t","i","n","_","_">> ELSE <<"b","u","i","l","t","i","n","s">>

\* tn.__mro__: every class here has one base, object, except that under
\* Python 2 the base of str is basestring
type_mro(v, tn) ==
    IF tn = <<"o","b","j","e","c","t">> THEN <<tn>>
    ELSE IF tn = <<"s","t","r">> /\ v = 2 THEN <<tn, <<"b","a","s","e","s","t","r","i","n","g">>, <<"o","b","j","e","c","t">>>>
    ELSE <<tn, <<"o","b","j","e","c","t">>>>

\* getattr(x, name): the attribute is found, or AttributeError is raised,
\* or the model does not resolve the lookup (unresolved), which then may
\* raise AttributeError or return any object.  A record, and a value
\* reached from one (None, a str, an int, a timedelta, a dict), has the
\* attributes dir(x) lists: those that hold data are looked up, every other
\* one is a bound method.  Of a bound method the model resolves __name__
\* and __self__: the object the method was looked up on, the class of that
\* object for a method of the class, and nothing for maketrans, a static
\* method of str.  A class that has no __new__ of its own (Session, and
\* under Python 2 the type of None) inherits that of object.  Of a type the
\* model resolves __class__, __name__, __module__, __doc__, __mro__,
\* __bases__ and __base__, and of a tuple nothing.
getattr(v, x, name) ==
    LET found(val) == [known |-> TRUE, ok |-> TRUE, val |-> val]
        missing == [known |-> TRUE, ok |-> FALSE, val |-> NoneValue]
        unresolved == [known |-> FALSE, ok |-> FALSE, val |-> NoneValue]
    IN
    IF x.t = "tuple" THEN unresolved
    ELSE IF x.t = "callable" THEN
        CASE name = <<"_","_","n","a","m","e","_","_">> -> found(Value("str", x.v.name))
          [] name = <<"_","_","s","e","l","f","_","_">> ->
                IF x.v.name = <<"m","a","k","e","t","r","a","n","s">> THEN found(NoneValue)
                ELSE IF x.v.name \notin
                          {<<"_","_","c","l","a","s","s","_","g","e","t","i","t","e","m","_","_">>, <<"_","_","i","n","i","t","_","s","u","b","c","l","a","s","s","_","_">>,
                           <<"_","_","n","e","w","_","_">>, <<"_","_","s","u","b","c","l","a","s","s","h","o","o","k","_","_">>, <<"f","r","o","m","_","b","y","t","e","s">>,
                           <<"f","r","o","m","k","e","y","s">>}
                THEN found(x.v.self)
                ELSE IF /\ x.v.name = <<"_","_","n","e","w","_","_">>
                        /\ \/ x.v.self.t = "Session"
                           \/ v = 2 /\ x.v.self.t = "None"
                THEN found(Value("type", <<"o","b","j","e","c","t">>))
                ELSE found(Value("type", type_name(x.v.self)))
          [] OTHER -> unresolved
    ELSE IF x.t = "type" THEN
        CASE name = <<"_","_","c","l","a","s","s","_","_">> -> found(Value("type", <<"t","y","p","e">>))
          [] name = <<"_","_","n","a","m","e","_","_">> -> found(Value("str", x.v))
          [] name = <<"_","_","m","o","d","u","l","e","_","_">> -> found(Value("str", type_module(v, x.v)))
          [] name = <<"_","_","d","o","c","_","_">> -> found(type_doc(v, x.v))
          [] name = <<"_","_","m","r","o","_","_">> -> found(Value("tuple", type_mro(v, x.v)))
          [] name = <<"_","_","b","a","s","e","s","_","_">> ->
                found(Value("tuple", IF x.v = <<"o","b","j","e","c","t">> THEN <<>>
                                     ELSE <<type_mro(v, x.v)[2]>>))
          [] name = <<"_","_","b","a","s","e","_","_">> ->
                found(IF x.v = <<"o","b","j","e","c","t">> THEN NoneValue
                      ELSE Value("type", type_mro(v, x.v)[2]))
          [] OTHER -> unresolved
    ELSE IF ~hasattr(v, x, name) THEN missing
    ELSE IF name = <<"_","_","c","l","a","s","s","_","_">> THEN found(Value("type", type_name(x)))
    ELSE IF name = <<"_","_","d","o","c","_","_">> THEN found(type_doc(v, type_name(x)))
    ELSE IF x.t = "Session" THEN
        CASE \E i \in 1..Len(Session_fields) : Session_fields[i] = name ->
                found(Session_field(x.v, name))
          [] name = <<"_","_","d","i","c","t","_","_">> -> found(Value("dict", Session_dict(x.v)))
          [] name = <<"_","_","m","o","d","u","l","e","_","_">> ->
                found(Value("str", type_module(v, <<"S","e","s","s","i","o","n">>)))
          [] name = <<"_","_","w","e","a","k","r","e","f","_","_">> -> found(NoneValue)
          [] OTHER -> found(Method(name, x))
    ELSE IF x.t = "timedelta" THEN
        CASE name = <<"d","a","y","s">> -> found(Value("int", x.v[1]))
          [] name = <<"s","e","c","o","n","d","s">> -> found(Value("int", x.v[2]))
          [] name = <<"m","i","c","r","o","s","e","c","o","n","d","s">> -> found(Value("int", x.v[3]))
          [] name = <<"m","a","x">> ->
                found(Value("timedelta", <<999999999, 86399, 999999>>))
          [] name = <<"m","i","n">> -> found(Value("timedelta", <<-999999999, 0, 0>>))
          [] name = <<"r","e","s","o","l","u","t","i","o","n">> -> found(Value("timedelta", <<0, 0, 1>>))
          [] OTHER -> found(Method(name, x))
    ELSE IF x.t = "int" THEN
        CASE name = <<"r","e","a","l">> \/ name = <<"n","u","m","e","r","a","t","o","r">> -> found(x)
          [] name = <<"i","m","a","g">> -> found(Value("int", 0))
          [] name = <<"d","e","n","o","m","i","n","a","t","o","r">> -> found(Value("int", 1))
          [] OTHER -> found(Method(name, x))
    ELSE IF x.t = "dict" /\ name = <<"_","_","h","a","s","h","_","_">> THEN found(NoneValue)
    ELSE found(Method(name, x))

\* the names of a dotted path are looked up one after the other; a lookup
\* that is unresolved leaves the path unresolved
RECURSIVE resolve_attr(_, _, _)
resolve_attr(v, x, names) ==
    IF names = <<>> THEN [known |-> TRUE, raised |-> None, val |-> x]
    ELSE LET r == getattr(v, x, Head(names)) IN
         IF ~r.known
         THEN [known |-> FALSE, raised |-> None, val |-> NoneValue]
         ELSE IF r.ok THEN resolve_attr(v, r.val, Tail(names))
         ELSE [known |-> TRUE, raised |-> Some("AttributeError"),
               val |-> NoneValue]

\* attrgetter(expr)(s)
attrgetter(v, expr, s) ==
    resolve_attr(v, Value("Session", s), split(expr, ".", -1))

-----------------------------------------------------------------------------
(* Comparison of two keys *)

\* Python 2, type(m).__name__ of the bound method m: a function of the
\* class Session is an instancemethod, the wrapper of a slot (__len__,
\* __setattr__) a method-wrapper, any other method a
\* builtin_function_or_method; __format__, __new__ and the like are
\* methods of their type and not wrappers of a slot
method_type(m) ==
    IF m.v.self.t = "Session" /\ m.v.name = <<"_","_","i","n","i","t","_","_">>
    THEN <<"i","n","s","t","a","n","c","e","m","e","t","h","o","d">>
    ELSE IF \/ Len(m.v.name) < 2
            \/ SubSeq(m.v.name, 1, 2) # <<"_","_">>
            \/ m.v.name \in
                  {<<"_","_","f","o","r","m","a","t","_","_">>, <<"_","_","g","e","t","n","e","w","a","r","g","s","_","_">>, <<"_","_","n","e","w","_","_">>,
                   <<"_","_","r","e","d","u","c","e","_","_">>, <<"_","_","r","e","d","u","c","e","_","e","x","_","_">>, <<"_","_","s","i","z","e","o","f","_","_">>,
                   <<"_","_","s","u","b","c","l","a","s","s","h","o","o","k","_","_">>, <<"_","_","t","r","u","n","c","_","_">>}
            \/ /\ m.v.self.t = "dict"
               /\ m.v.name \in {<<"_","_","c","o","n","t","a","i","n","s","_","_">>, <<"_","_","g","e","t","i","t","e","m","_","_">>}
    THEN <<"b","u","i","l","t","i","n","_","f","u","n","c","t","i","o","n","_","o","r","_","m","e","t","h","o","d">>
    ELSE <<"m","e","t","h","o","d","-","w","r","a","p","p","e","r">>

\* Python 2, the name default_3way_compare orders the type of x by
tp_name(x) == IF x.t = "callable" THEN method_type(x) ELSE type_name(x)

\* Python 2, default_3way_compare of values of two types: None is the
\* smallest, a number comes next, the others are in the order of the names
\* of their types
type_lt(a, b) ==
    IF a.t = "None" \/ b.t = "None" THEN a.t = "None"
    ELSE IF a.t = "int" \/ b.t = "int" THEN a.t = "int"
    ELSE str_lt(tp_name(a), tp_name(b))

\* Python 2, wrapper_compare: two method-wrappers of one slot of one class
\* (one __objclass__) are compared by the objects they are bound to.  Two
\* types have a slot of one class where neither defines it and both
\* inherit that of object: __setattr__ and __delattr__ for every value
\* here, __init__ for all but a dict, __str__ for None, a dict and a
\* record, __getattribute__ for None and a record, __hash__ and __repr__
\* for a record alone.
same_wrapper(a, b) ==
    LET of_object(m) ==
            CASE m.v.name \in {<<"_","_","s","e","t","a","t","t","r","_","_">>, <<"_","_","d","e","l","a","t","t","r","_","_">>} -> TRUE
              [] m.v.name = <<"_","_","i","n","i","t","_","_">> ->
                    m.v.self.t \in {"None", "str", "int", "timedelta"}
              [] m.v.name = <<"_","_","s","t","r","_","_">> ->
                    m.v.self.t \in {"None", "dict", "Session"}
              [] m.v.name = <<"_","_","g","e","t","a","t","t","r","i","b","u","t","e","_","_">> ->
                    m.v.self.t \in {"None", "Session"}
              [] m.v.name \in {<<"_","_","h","a","s","h","_","_">>, <<"_","_","r","e","p","r","_","_">>} ->
                    m.v.self.t = "Session"
              [] OTHER -> FALSE
    IN
    /\ a.t = "callable" /\ b.t = "callable"
    /\ method_type(a) = <<"m","e","t","h","o","d","-","w","r","a","p","p","e","r">>
    /\ method_type(b) = <<"m","e","t","h","o","d","-","w","r","a","p","p","e","r">>
    /\ a.v.name = b.v.name
    /\ \/ a.v.self.t = b.v.self.t
       \/ of_object(a) /\ of_object(b)

\* tuple < tuple: the first elements that differ decide, and the lengths
\* where one tuple starts with the other; whether such elements there are
\* (the elements are classes)
tuples_differ(a, b) ==
    \E i \in 1..Len(a) : i <= Len(b) /\ a[i] # b[i]

\* whether the model determines the outcome of a < b.  Python 3 orders no
\* bound methods, types or records.  Python 2 orders two methods of one
\* type by the addresses of what they are bound to, or of their functions,
\* except two method-wrappers of one slot; it orders two records by their
\* addresses, and two tuples of classes by those of the first classes that
\* differ.  Which of these objects are one and the same, and where they
\* lie, the model does not determine.
RECURSIVE order_known(_, _, _)
order_known(v, a, b) ==
    \/ v = 3
    \/ a.t = "timedelta" \/ b.t = "timedelta"
    \/ tp_name(a) # tp_name(b)
    \/ a.t \in {"None", "str", "int", "dict", "type"}
    \/ a.t = "tuple" /\ ~tuples_differ(a.v, b.v)
    \/ same_wrapper(a, b) /\ order_known(v, a.v.self, b.v.self)

\* whether a < b returns (otherwise it raises TypeError), where its outcome
\* is determined.  A timedelta is ordered only with a timedelta.  Python 3
\* orders str with str, int with int and a tuple with a tuple that has the
\* same classes where both have one, and neither None nor dicts, records,
\* types or bound methods.  Python 2 orders everything else; two dicts of
\* one length are ordered by the values of their smallest differing keys,
\* two method-wrappers of one slot by the objects they are bound to.
RECURSIVE comparable(_, _, _)
comparable(v, a, b) ==
    IF a.t = "timedelta" \/ b.t = "timedelta" THEN a.t = b.t
    ELSE IF v = 3
    THEN /\ a.t = b.t
         /\ \/ a.t \in {"str", "int"}
            \/ a.t = "tuple" /\ ~tuples_differ(a.v, b.v)
    ELSE IF same_wrapper(a, b) THEN comparable(v, a.v.self, b.v.self)
    ELSE IF a.t = "dict" /\ b.t = "dict" /\ dict_values_decide(a.v, b.v)
    THEN comparable(v, dict_deciding(a.v, b.v), dict_deciding(b.v, a.v))
    ELSE TRUE

\* a < b, where comparable.  Python 2 orders two types by their addresses:
\* a type carries the rank of its address in the field at.  Python 2,
\* dict < dict: the shorter dict is the smaller; of two dicts of one
\* length, the smallest differing keys decide, then their values.
RECURSIVE value_lt(_, _, _)
value_lt(v, a, b) ==
    IF same_wrapper(a, b) THEN value_lt(v, a.v.self, b.v.self)
    ELSE IF tp_name(a) # tp_name(b) THEN type_lt(a, b)
    ELSE CASE a.t = "str" -> str_lt(a.v, b.v)
           [] a.t = "int" -> a.v < b.v
           [] a.t = "timedelta" -> timedelta_lt(a.v, b.v)
           [] a.t = "dict" ->
                IF Cardinality(a.v) # Cardinality(b.v)
                THEN Cardinality(a.v) < Cardinality(b.v)
                ELSE IF dict_diff(a.v, b.v) = {} THEN FALSE
                ELSE IF ~dict_values_decide(a.v, b.v)
                THEN str_lt(str_min(dict_diff(a.v, b.v)),
                            str_min(dict_diff(b.v, a.v)))
                ELSE value_lt(v, dict_deciding(a.v, b.v),
                              dict_deciding(b.v, a.v))
           [] a.t = "type" -> a.at < b.at
           [] a.t = "tuple" -> Len(a.v) < Len(b.v)
           [] a.t = "None" -> FALSE

-----------------------------------------------------------------------------
(* list.sort *)

Reverse(s) == [i \in 1..Len(s) |-> s[Len(s) + 1 - i]]

\* the orders the addresses of n objects can be in: the rank of each
AddressOrders(n) ==
    {f \in [1..n -> 1..n] : \A i, j \in 1..n : f[i] = f[j] => i = j}

\* whether the keys of the elements i and j are one object, where keys are
\* ordered by address: a type is one object
same_object(keys, i, j) ==
    /\ keys[i].t = keys[j].t
    /\ keys[i].v = keys[j].v

\* the tuple of the first n values of f
RECURSIVE tuple(_, _)
tuple(f, n) == IF n = 0 THEN <<>> ELSE Append(tuple(f, n - 1), f[n])

\* the keys, those that are types with the rank of their address under the
\* order addr
address_keys(addr, keys) ==
    tuple([i \in 1..Len(keys) |->
              IF keys[i].t = "type"
              THEN [t |-> keys[i].t, v |-> keys[i].v,
                    at |-> addr[CHOOSE j \in 1..i :
                               /\ same_object(keys, i, j)
                               /\ \A k \in 1..(j - 1) :
                                     ~same_object(keys, i, k)]]
              ELSE keys[i]],
          Len(keys))

\* count_run: s[1..k-1] is a run, descending or not; the length of the run
\* it is the start of.  A comparison that raises ends the sort.
RECURSIVE count_run(_, _, _, _, _)
count_run(v, keys, s, k, descending) ==
    IF k > Len(s) THEN [raised |-> FALSE, n |-> k - 1]
    ELSE IF ~comparable(v, keys[s[k]], keys[s[k - 1]])
    THEN [raised |-> TRUE, n |-> 0]
    ELSE IF value_lt(v, keys[s[k]], keys[s[k - 1]]) = descending
    THEN count_run(v, keys, s, k + 1, descending)
    ELSE [raised |-> FALSE, n |-> k - 1]

\* binarysort, the search: the place among s[l..r-1] the pivot belongs at,
\* behind every element that is not greater
RECURSIVE bisect(_, _, _, _, _, _)
bisect(v, keys, s, pivot, l, r) ==
    IF l >= r THEN [raised |-> FALSE, at |-> l]
    ELSE LET p == l + (r - l) \div 2 IN
         IF ~comparable(v, keys[pivot], keys[s[p]])
         THEN [raised |-> TRUE, at |-> 0]
         ELSE IF value_lt(v, keys[pivot], keys[s[p]])
         THEN bisect(v, keys, s, pivot, l, p)
         ELSE bisect(v, keys, s, pivot, p + 1, r)

\* binarysort: s[1..start-1] is sorted; the elements from start on are put
\* into it one after the other
RECURSIVE binarysort(_, _, _, _)
binarysort_insert(v, keys, s, start, b) ==
    IF b.raised THEN [raised |-> TRUE, value |-> <<>>]
    ELSE binarysort(v, keys,
                    SubSeq(s, 1, b.at - 1) \o <<s[start]>>
                      \o SubSeq(s, b.at, start - 1)
                      \o SubSeq(s, start + 1, Len(s)),
                    start + 1)
binarysort(v, keys, s, start) ==
    IF start > Len(s) THEN [raised |-> FALSE, value |-> s]
    ELSE binarysort_insert(v, keys, s, start,
                           bisect(v, keys, s, s[start], 1, start))

\* listsort on a list of fewer than 64 positions: the run the list starts
\* with is found, reversed if it descends, and the rest is put into it
listsort_run(v, keys, s, descending, run) ==
    IF run.raised THEN [raised |-> TRUE, value |-> <<>>]
    ELSE binarysort(v, keys,
                    IF descending
                    THEN Reverse(SubSeq(s, 1, run.n))
                           \o SubSeq(s, run.n + 1, Len(s))
                    ELSE s,
                    run.n + 1)
listsort_from(v, keys, s, descending) ==
    listsort_run(v, keys, s, descending,
                 count_run(v, keys, s, 3, descending))
listsort(v, keys, s) ==
    IF Len(s) < 2 THEN [raised |-> FALSE, value |-> s]
    ELSE IF ~comparable(v, keys[s[2]], keys[s[1]])
    THEN [raised |-> TRUE, value |-> <<>>]
    ELSE listsort_from(v, keys, s, value_lt(v, keys[s[2]], keys[s[1]]))

\* the outcome of a sort, its list reversed
reversed(r) ==
    IF r.raised THEN r ELSE [raised |-> FALSE, value |-> Reverse(r.value)]

\* mutant of sorted_positions: a descending sort is the ascending one read
\* backwards
sorted_positions_backwards(v, keys, reverse) ==
    IF reverse
    THEN reversed(listsort(v, keys, [i \in 1..Len(keys) |-> i]))
    ELSE listsort(v, keys, [i \in 1..Len(keys) |-> i])

\* list.sort on keys: the positions of the list in sorted order.  The sort
\* is stable; for reverse the list is reversed, sorted, and reversed again.
sorted_positions(v, keys, reverse) ==
    IF reverse
    THEN reversed(listsort(v, keys, Reverse([i \in 1..Len(keys) |-> i])))
    ELSE listsort(v, keys, [i \in 1..Len(keys) |-> i])

-----------------------------------------------------------------------------
(* sorted, sorted_from_expr *)

\* the outcomes of a sort the model does not determine: the list in any
\* order, AttributeError where a key is unresolved, and TypeError where
\* two keys may be compared and not be comparable
sorted_undetermined(list, attribute_error, type_error) ==
    {[raised |-> None, value |-> [k \in 1..Len(list) |-> list[f[k]]]] :
        f \in AddressOrders(Len(list))}
      \cup {[raised |-> Some(e), value |-> <<>>] :
               e \in {e \in {"AttributeError", "TypeError"} :
                         \/ e = "AttributeError" /\ attribute_error
                         \/ e = "TypeError" /\ type_error}}

\* whether the model determines the outcome of every comparison of two of
\* the keys
keys_order_known(v, keys) ==
    \A i, j \in 1..Len(keys) : i # j => order_known(v, keys[i], keys[j])

\* sorted(list, key=attrgetter(name), reverse=reverse), the outcomes it can
\* have: the keys are computed first, for every element; the list is then
\* sorted on them, and a comparison of two keys that are not comparable
\* raises.  Python 2 orders types by address, in the order addr.
sorted_at(list, at) ==
    IF at.raised
    THEN [raised |-> Some("TypeError"), value |-> <<>>]
    ELSE [raised |-> None,
          value |-> [k \in 1..Len(list) |-> list[at.value[k]]]]
sorted_keys(v, addr, list, keys, reverse) ==
    IF keys_order_known(v, keys)
    THEN {sorted_at(list, sorted_positions(v, address_keys(addr, keys),
                                           reverse))}
    ELSE sorted_undetermined(
             list, FALSE,
             \E i, j \in 1..Len(keys) :
                 /\ i # j
                 /\ order_known(v, keys[i], keys[j])
                 /\ ~comparable(v, keys[i], keys[j]))
sorted_on(v, addr, list, got, reverse) ==
    IF \E i \in 1..Len(list) : got[i].raised # None
    THEN {[raised |-> Some("AttributeError"), value |-> <<>>]}
    ELSE IF \E i \in 1..Len(list) : ~got[i].known
    THEN sorted_undetermined(list, TRUE, Len(list) > 1)
    ELSE sorted_keys(v, addr, list,
                     tuple([i \in 1..Len(list) |-> got[i].val], Len(list)),
                     reverse)
sorted(v, addr, list, name, reverse) ==
    sorted_on(v, addr, list,
              tuple([i \in 1..Len(list) |-> attrgetter(v, name, list[i])],
                    Len(list)),
              reverse)

\* expr.startswith of a minus sign
startswith_minus(expr) == expr # <<>> /\ Head(expr) = "-"

\* whether the order of the addresses bears on the sort: Python 2 is to
\* order keys that are types
address_ordered(v, list, expr) ==
    /\ v = 2
    /\ \E i \in 1..Len(list) :
          attrgetter(v, IF startswith_minus(expr) THEN Tail(expr) ELSE expr,
                     list[i]).val.t = "type"

\* the orders of the addresses to tell apart: all of them where the order
\* bears on the sort, and one otherwise
sort_addresses(v, list, expr) ==
    IF address_ordered(v, list, expr)
    THEN AddressOrders(Len(list))
    ELSE {[i \in 1..Len(list) |-> i]}

\* sorted_from_expr(list, expr), the outcomes it can have
sorted_from_expr(v, addr, list, expr) ==
    IF startswith_minus(expr)
    THEN sorted(v, addr, list, Tail(expr), TRUE)
    ELSE sorted(v, addr, list, expr, FALSE)
-----------------------------------------------------------------------------
(* The listings the management endpoint may deliver *)

LineConnStale == <<"a"," ","c","o","n","n","e","c","t","e","d"," ","l",",","c"," ","l","a","s","t","_","x","m","i","t","_","a","g","o","_","m","s","=","3","6","0","0","0","0","1","\n">>
LineConnAtLimit == <<"b"," ","c","o","n","n","e","c","t","e","d"," ","l",",","c"," ","l","a","s","t","_","x","m","i","t","_","a","g","o","_","m","s","=","3","6","0","0","0","0","0","\n">>
LineShutStale == <<"c"," ","s","h","u","t","d","o","w","n","-","w","r","i","t","e"," ","l",",","c"," ","l","a","s","t","_","x","m","i","t","_","a","g","o","_","m","s","=","6","0","0","0","0","1","\n">>
LineShutAtLimit == <<"d"," ","s","h","u","t","d","o","w","n","-","w","r","i","t","e"," ","l",",","c"," ","l","a","s","t","_","x","m","i","t","_","a","g","o","_","m","s","=","6","0","0","0","0","0","\n">>
LineOtherIdle == <<"e"," ","n","e","w"," ","l",",","c"," ","l","a","s","t","_","x","m","i","t","_","a","g","o","_","m","s","=","3","6","0","0","0","0","1","\n">>
LineOtherNoXmit == <<"i"," ","n","e","w"," ","l",",","c"," ","s","e","s","s","i","o","n","_","a","g","e","_","m","s","=","5","\n">>
LineConnNoXmit == <<"g"," ","c","o","n","n","e","c","t","e","d"," ","l",",","c"," ","s","e","s","s","i","o","n","_","a","g","e","_","m","s","=","5","\n">>
LineShutNoXmit == <<"s"," ","s","h","u","t","d","o","w","n","-","w","r","i","t","e"," ","l",",","c"," ","s","e","s","s","i","o","n","_","a","g","e","_","m","s","=","5","\n">>
LineNoComma == <<"h"," ","c","o","n","n","e","c","t","e","d"," ","l","c"," ","l","a","s","t","_","x","m","i","t","_","a","g","o","_","m","s","=","3","6","0","0","0","0","1","\n">>
LineEnd == <<"E","N","D","\n">>
LineShort == <<"x"," ","y"," ","z","\n">>
LineNoEq == <<"f"," ","c","o","n","n","e","c","t","e","d"," ","l",",","c"," ","j","u","n","k","\n">>

LineScenario ==
    <<"a","1"," ","c","o","n","n","e","c","t","e","d"," ","1","0",".","0",".","0",".","1",":","4","4","3",",","2","0","3",".","0",".","1","1","3",".","5"," ","s","e","s","s","i","o","n","_","a","g","e","_","m","s","=","5","0","0","0"," ","l","a","s","t","_","x","m","i","t","_","a","g","o","_","m","s","=","3","7","0","0","0","0","0"," ","b","a","c","k","e","n","d","_","n","a","m","e","=","b","1","\n">>
LineEndPadded == <<" ","E","N","D"," ","\r","\n">>
LineTwoSpaces == <<"a"," "," ","b"," ","c","\n">>
LineTab == <<"a","\t","b"," ","c"," ","d","\n">>
LineEmptyPair == <<"k"," ","s"," ","l",",","c"," ","x","=","1"," "," ","y","=","2","\n">>
LineBadInt == <<"m"," ","s"," ","l",",","c"," ","l","a","s","t","_","x","m","i","t","_","a","g","o","_","m","s","=","z","z","\n">>
LineEqInValue == <<"n"," ","s"," ","l",",","c"," ","b","a","c","k","e","n","d","_","n","a","m","e","=","q","=","r"," ","x","=","1","=","2"," ","y","=","\n">>
LineSigned == <<"o"," ","s"," ","l",",","c"," ","l","a","s","t","_","x","m","i","t","_","a","g","o","_","m","s","=","-","5"," ","s","e","s","s","i","o","n","_","a","g","e","_","m","s","=","+","7","\n">>
LineRepeat == <<"p"," ","s"," ","l",",","c"," ","b","a","c","k","e","n","d","_","n","a","m","e","=","u"," ","l","a","s","t","_","x","m","i","t","_","a","g","o","_","m","s","=","1"," ","b","a","c","k","e","n","d","_","n","a","m","e","=","w"," ","l","a","s","t","_","x","m","i","t","_","a","g","o","_","m","s","=","8","6","4","0","0","0","0","1","\n">>
LineUnderscore == <<"q"," ","s"," ","l",",","c"," ","s","e","s","s","i","o","n","_","a","g","e","_","m","s","=","1","_","0","\n">>
LineEndVT == <<VT>> \o <<"E","N","D","\n">>
LineEndSep == <<"E","N","D">> \o <<FS, "\n">>
LineSignTab == <<"t"," ","c","o","n","n","e","c","t","e","d"," ","l",",","c"," ","l","a","s","t","_","x","m","i","t","_","a","g","o","_","m","s","=","+","\t","3","6","0","0","0","0","1","\n">>
LineEndOgham == <<"E","N","D">> \o <<UnicodeSpaces[1][1], "\n">>
LineDigits ==
    <<"u"," ","c","o","n","n","e","c","t","e","d"," ","l",",","c"," ","l","a","s","t","_","x","m","i","t","_","a","g","o","_","m","s","=">> \o <<UnicodeSpaces[1][1]>>
        \o <<UnicodeDigits[1][2][4], UnicodeDigits[3][2][7]>>
        \o <<"0","0","0","0","1"," ","x","=","1">> \o <<UnicodeSpaces[1][1], "\n">>

\* lines of the listings a reaper run is checked on: records on both sides
\* of the two age limits
ReaperLines ==
    {LineConnStale, LineConnAtLimit, LineShutStale, LineShutAtLimit,
     LineOtherIdle, LineNoComma}

\* listings with records that have no last_xmit_ago
UnsetLines ==
    {LineConnStale, LineShutStale, LineOtherIdle, LineOtherNoXmit,
     LineConnNoXmit, LineShutNoXmit}

\* listings with lines load_sessions fails on
MalformedListing ==
    {LineConnStale, LineShutStale, LineNoEq, LineBadInt, LineEmptyPair,
     LineEnd}

\* lines of the streams load_sessions alone is checked on
LoadLines ==
    {LineScenario, LineEnd, LineEndPadded, LineShort, LineTwoSpaces, LineTab,
     LineNoEq, LineEmptyPair, LineBadInt, LineEqInValue, LineSigned,
     LineRepeat, LineUnderscore, LineEndVT, LineEndSep, LineSignTab,
     LineEndOgham, LineDigits}

Streams(lines) == UNION {[1..n -> lines] : n \in 0..MaxLines}

-----------------------------------------------------------------------------
(* Specifications *)

InitCommon ==
    /\ py \in PyVersions
    /\ exc = None
    /\ pos = 0
    /\ acc = <<>>
    /\ lineout = <<>>
    /\ sessions = <<>>
    /\ pass = 0
    /\ idx = 0
    /\ stdout = <<>>
    /\ cmds = <<>>
    /\ nopen = 0
    /\ nopened = 0
    /\ rc = None
    /\ events = <<>>

\* a run of the reaper: main() is about to call get_sessions
Init ==
    /\ prog = "reaper"
    /\ pc = "main"
    /\ stream \in Streams(ReaperLines)
    /\ argv = None
    /\ call_ms = 0
    /\ call_td = None
    /\ InitCommon

Next ==
    \/ get_sessions_Popen
    \/ get_sessions_write
    \/ load_sessions_line
    \/ load_sessions_eof
    \/ get_sessions_wait
    \/ get_sessions_return
    \/ main_for_next
    \/ main_for_end
    \/ main_print_session
    \/ destroy_session_Popen
    \/ destroy_session_write
    \/ destroy_session_read
    \/ destroy_session_wait
    \/ destroy_session_return

Spec == Init /\ [][Next]_vars

\* a run of the reaper on a listing with records without last_xmit_ago
InitUnset ==
    /\ prog = "reaper"
    /\ pc = "main"
    /\ stream \in Streams(UnsetLines)
    /\ argv = None
    /\ call_ms = 0
    /\ call_td = None
    /\ InitCommon

SpecUnset == InitUnset /\ [][Next]_vars

\* a run of the reaper on a listing with malformed lines
InitMalformed ==
    /\ prog = "reaper"
    /\ pc = "main"
    /\ stream \in Streams(MalformedListing)
    /\ argv = None
    /\ call_ms = 0
    /\ call_td = None
    /\ InitCommon

SpecMalformed == InitMalformed /\ [][Next]_vars

\* load_sessions called on a stream
InitLoad ==
    /\ prog = "load_sessions"
    /\ pc = "load"
    /\ stream \in Streams(LoadLines)
    /\ argv = None
    /\ call_ms = 0
    /\ call_td = None
    /\ InitCommon

NextLoad ==
    \/ load_sessions_line
    \/ load_sessions_eof

SpecLoad == InitLoad /\ [][NextLoad]_vars


-----------------------------------------------------------------------------
(* timedelta_from_ms called alone *)

MaxDays == 2
NearDay == 12

\* arguments around the multiples of a day, and the ages of the listings
DurationInputs ==
    {d * MsPerDay + k : d \in 0..MaxDays, k \in 0..NearDay}
      \cup {d * MsPerDay - k : d \in 1..MaxDays, k \in 1..NearDay}
      \cup {5000, 600000, 600001, 3600000, 3600001, 3700000}

\* the call timedelta_from_ms(ms) returns, or raises
timedelta_from_ms_call ==
    /\ pc = "td_call"
    /\ LET r == timedelta_from_ms(py, call_ms) IN
        /\ exc' = r.raised
        /\ call_td' = IF r.raised = None THEN Some(r.td) ELSE None
        /\ pc' = IF r.raised = None THEN "td_return" ELSE "failed"
        /\ events' = IF r.raised = None THEN events ELSE Raise("raise")
    /\ UNCHANGED <<py, prog, argv, call_ms, stream, pos, acc, lineout,
                   sessions, pass, idx, stdout, cmds, nopen, nopened, rc>>

InitDuration ==
    /\ prog = "timedelta_from_ms"
    /\ pc = "td_call"
    /\ stream = <<>>
    /\ argv = None
    /\ call_ms \in DurationInputs
    /\ call_td = None
    /\ InitCommon

NextDuration == timedelta_from_ms_call

SpecDuration == InitDuration /\ [][NextDuration]_vars

-----------------------------------------------------------------------------
(* The listing tool: main of active-formatter.py *)

\* the values formatted into the header row
header_row ==
    <<<<"s","e","s","s","i","o","n","_","i","d">>, <<"s","t","a","t","e">>, <<"s","e","s","s","i","o","n","_","a","g","e">>, <<"l","a","s","t","_","x","m","i","t","_","a","g","o">>, <<"b","a","c","k","e","n","d">>,
      <<"c","l","i","e","n","t"," ","i","p">>>>

\* print(header)
formatter_main_header ==
    /\ pc = "fmt_main"
    /\ stdout' = Append(stdout, header_row)
    /\ pc' = "fmt_load"
    /\ UNCHANGED <<py, prog, argv, call_ms, call_td, stream, exc, pos, acc,
                   lineout, sessions, pass, idx, cmds, nopen, nopened, rc,
                   events>>

\* one iteration of `for line in sys.stdin`; an exception raised in it is
\* not caught and ends the run
formatter_main_line ==
    /\ pc = "fmt_load"
    /\ pos < Len(stream)
    /\ LET r == load_line(py, stream[pos + 1]) IN
        /\ pos' = pos + 1
        /\ lineout' = Append(lineout, r.kind)
        /\ acc' = IF r.kind = "append" THEN Append(acc, r.sess) ELSE acc
        /\ exc' = r.raised
        /\ pc' = CASE r.kind = "break" -> "fmt_sort"
                   [] r.kind = "raise" -> "failed"
                   [] OTHER -> "fmt_load"
        /\ events' = IF r.kind = "raise" THEN Raise("raise") ELSE events
    /\ UNCHANGED <<py, prog, argv, call_ms, call_td, stream, sessions, pass,
                   idx, stdout, cmds, nopen, nopened, rc>>

\* standard input is exhausted: the for loop ends
formatter_main_eof ==
    /\ pc = "fmt_load"
    /\ pos = Len(stream)
    /\ pc' = "fmt_sort"
    /\ UNCHANGED <<py, prog, argv, call_ms, call_td, stream, exc, pos, acc,
                   lineout, sessions, pass, idx, stdout, cmds, nopen,
                   nopened, rc, events>>

\* sorted_from_expr(sessions, sys.argv[1]), evaluated before the first
\* iteration of the for loop over it; sys.argv[1] raises IndexError when the
\* tool was given no argument.  The objects the sort meets lie at addresses
\* in any order, and a sort on keys the model does not resolve, or does not
\* order, has any of its outcomes.
formatter_main_sorted_outcome(r) ==
    /\ exc' = r.raised
    /\ sessions' = r.value
    /\ idx' = IF r.raised = None THEN 1 ELSE idx
    /\ pc' = IF r.raised = None THEN "fmt_for" ELSE "failed"
    /\ events' = IF r.raised = None THEN events ELSE Raise("raise")
formatter_main_sorted ==
    /\ pc = "fmt_sort"
    /\ IF argv = <<>>
       THEN formatter_main_sorted_outcome(
                [raised |-> Some("IndexError"), value |-> <<>>])
       ELSE \E addr \in sort_addresses(py, acc, argv[1]) :
               \E r \in sorted_from_expr(py, addr, acc, argv[1]) :
                   formatter_main_sorted_outcome(r)
    /\ UNCHANGED <<py, prog, argv, call_ms, call_td, stream, pos, acc,
                   lineout, pass, stdout, cmds, nopen, nopened, rc>>

\* print_session(sess) for the next session of the sorted list
formatter_main_print ==
    /\ pc = "fmt_for"
    /\ idx <= Len(sessions)
    /\ LET r == print_session(py, sessions[idx]) IN
        /\ exc' = r.raised
        /\ stdout' = IF r.raised = None THEN Append(stdout, r.row) ELSE stdout
        /\ idx' = IF r.raised = None THEN idx + 1 ELSE idx
        /\ pc' = IF r.raised = None THEN "fmt_for" ELSE "failed"
        /\ events' = IF r.raised = None THEN events ELSE Raise("raise")
    /\ UNCHANGED <<py, prog, argv, call_ms, call_td, stream, pos, acc,
                   lineout, sessions, pass, cmds, nopen, nopened, rc>>

\* the sorted list is exhausted: main returns
formatter_main_end ==
    /\ pc = "fmt_for"
    /\ idx > Len(sessions)
    /\ pc' = "done"
    /\ UNCHANGED <<py, prog, argv, call_ms, call_td, stream, exc, pos, acc,
                   lineout, sessions, pass, idx, stdout, cmds, nopen,
                   nopened, rc, events>>

LineListed == <<"j"," ","c","o","n","n","e","c","t","e","d"," ","l",",","c"," ","l","a","s","t","_","x","m","i","t","_","a","g","o","_","m","s","=","8","6","4","0","0","0","0","1"," ","b","a","c","k","e","n","d","_","n","a","m","e","=","b"," ","x","=","1","\n">>

\* lines of the listings the listing tool is checked on
FormatterLines ==
    {LineConnStale, LineShutStale, LineOtherNoXmit, LineListed, LineNoComma,
     LineEnd, LineNoEq}

\* sort expressions the listing tool is checked on
SortExprs ==
    {<<"-","s","t","a","t","e">>, <<"-","s","e","s","s","i","o","n","_","i","d">>, <<"l","a","s","t","_","x","m","i","t","_","a","g","o">>, <<"-","l","a","s","t","_","x","m","i","t","_","a","g","o",".","d","a","y","s">>,
     <<"b","a","c","k","e","n","d">>, <<"e","x","t","r","a","s">>, <<"n","o","s","u","c","h">>, <<"-","n","o","s","u","c","h">>, <<"_","_","c","l","a","s","s","_","_">>,
     <<"-","b","a","c","k","e","n","d",".","_","_","c","l","a","s","s","_","_">>, <<"e","x","t","r","a","s",".","k","e","y","s">>, <<"_","_","d","i","c","t","_","_">>,
     <<"-","s","t","a","t","e",".","s","t","r","i","p",".","_","_","s","e","l","f","_","_">>, <<"l","a","s","t","_","x","m","i","t","_","a","g","o",".","_","_","s","e","t","a","t","t","r","_","_">>,
     <<"-","b","a","c","k","e","n","d",".","_","_","l","e","n","_","_">>, <<"s","t","a","t","e",".","_","_","c","l","a","s","s","_","_",".","_","_","m","r","o","_","_">>,
     <<"-","l","a","s","t","_","x","m","i","t","_","a","g","o",".","_","_","i","n","i","t","_","_">>}

\* a run of the listing tool on a listing, with or without an argument
InitFormatter ==
    /\ prog = "formatter"
    /\ pc = "fmt_main"
    /\ stream \in Streams(FormatterLines)
    /\ argv \in {None} \cup {Some(e) : e \in SortExprs}
    /\ call_ms = 0
    /\ call_td = None
    /\ InitCommon

NextFormatter ==
    \/ formatter_main_header
    \/ formatter_main_line
    \/ formatter_main_eof
    \/ formatter_main_sorted
    \/ formatter_main_print
    \/ formatter_main_end

SpecFormatter == InitFormatter /\ [][NextFormatter]_vars
-----------------------------------------------------------------------------
(* Vocabulary of the properties.  Lines are described here by the positions *)
(* of their characters, independently of split.                             *)

Min(S) == CHOOSE i \in S : \A j \in S : i <= j
Max(S) == CHOOSE i \in S : \A j \in S : j <= i

\* the n-th smallest member of a set of numbers
NthOf(S, n) == CHOOSE k \in S : Cardinality({j \in S : j < k}) = n - 1

IsEndLine(l) == strip(py, l) = END

\* position of the first END line of a stream, or one past its last line
FirstEnd(s) ==
    LET ends == {k \in 1..Len(s) : IsEndLine(s[k])} IN
    IF ends = {} THEN Len(s) + 1 ELSE Min(ends)

\* the fields of a text that single spaces separate; sp: where its spaces are
SpaceAt(t) == {i \in 1..Len(t) : t[i] = SP}
FieldCount(t) == Cardinality(SpaceAt(t)) + 1
FieldOf(t, sp, k) ==
    SubSeq(t, IF k = 1 THEN 1 ELSE NthOf(sp, k - 1) + 1,
              IF k = Cardinality(sp) + 1 THEN Len(t) ELSE NthOf(sp, k) - 1)
Field(t, k) == FieldOf(t, SpaceAt(t), k)

\* the number of fields of a line that runs of whitespace separate
WsFieldCount(l) ==
    Cardinality({i \in 1..Len(l) :
                    ~IsSpace(py, l[i]) /\ (i = 1 \/ IsSpace(py, l[i - 1]))})

\* a key=value token: its key ends at its first "="
HasEq(t) == \E i \in 1..Len(t) : t[i] = EQ
FirstEq(t) == Min({i \in 1..Len(t) : t[i] = EQ})
KeyOf(t) == SubSeq(t, 1, FirstEq(t) - 1)
ValueOf(t) == SubSeq(t, FirstEq(t) + 1, Len(t))

\* the key/value part of a four-field line t: its fields from the 4th on
PairFields(t) == 4..FieldCount(t)

\* a four-field line with a token without "=", or with a value of
\* session_age_ms or last_xmit_ago_ms that is not an integer or is not the
\* milliseconds of a duration a timedelta can hold
Malformed(v, l) ==
    LET t == strip(v, l)
        sp == SpaceAt(t)
    IN
    /\ t # END
    /\ Cardinality(sp) >= 3
    /\ \E k \in 4..Cardinality(sp) + 1 :
          LET f == FieldOf(t, sp, k) IN
          \/ ~HasEq(f)
          \/ /\ KeyOf(f) \in {session_age_ms, last_xmit_ago_ms}
             /\ \/ ~int_ok(v, ValueOf(f))
                \/ timedelta_from_ms(v, int(v, ValueOf(f))).raised # None

\* the lines before END that are malformed
MalformedLines == {k \in 1..FirstEnd(stream) - 1 : Malformed(py, stream[k])}

\* the last value a four-field line t gives to key, or None
LastValue(t, key) ==
    LET at == {k \in PairFields(t) : HasEq(Field(t, k)) /\ KeyOf(Field(t, k)) = key}
    IN IF at = {} THEN None ELSE Some(ValueOf(Field(t, Max(at))))

\* a duration of more than a number of seconds
LongerThan(d, seconds) ==
    \/ d[1] > 0
    \/ d[1] = 0 /\ d[2] > seconds
    \/ d[1] = 0 /\ d[2] = seconds /\ d[3] > 0

\* the stale records, as the policy states them
StaleRecord(s) ==
    \/ /\ s.state = Some(shutdown_write)
       /\ s.last_xmit_ago # None
       /\ LongerThan(s.last_xmit_ago[1], 600)
    \/ /\ s.state = Some(connected)
       /\ s.last_xmit_ago # None
       /\ LongerThan(s.last_xmit_ago[1], 3600)
StaleAt == {j \in 1..Len(sessions) : StaleRecord(sessions[j])}

\* the history, by kind of event
EventsOf(what) == SelectSeq(events, LAMBDA e : e.ev = what)
DestroyedAt == {events[i].idx : i \in {i \in 1..Len(events) : events[i].ev = "destroy"}}
DestroyCommands == Cardinality({i \in 1..Len(cmds) : cmds[i] # print_active_sessions})
LastEvent == events[Len(events)]
DestroyPlaces == {"ds_popen", "ds_write", "ds_read"}
\* a destroy_session call of the run has raised
DestroyRaised ==
    events # <<>> /\ LastEvent.ev = "raise" /\ LastEvent.at \in DestroyPlaces
\* the for loop that selects a record: 1 for shutdown-write, 2 otherwise
PassOf(s) == IF s.state = Some(shutdown_write) THEN 1 ELSE 2

-----------------------------------------------------------------------------
(* C1 *)

\* C1: every destroy-session command of a run is for a record that is
\* shutdown-write and idle for more than 10 minutes, or connected and idle
\* for more than 1 hour (strictly); and in a run that ends without any call
\* failing, the records destroyed are exactly those records, each command
\* carrying the id of its record.
C1_DestroyIffStale ==
    LET D == EventsOf("destroy") IN
    /\ \A k \in 1..Len(D) :
          /\ StaleRecord(sessions[D[k].idx])
          /\ cmds[k + 1] = destroy_command(sessions[D[k].idx].session_id[1])
    /\ pc = "done" => /\ DestroyedAt = StaleAt
                      /\ DestroyCommands = Cardinality(StaleAt)

\* a run ended without failure in which a stale record was destroyed while a
\* record exactly at the limit of its state and a long-idle record in
\* another state were left alone
C1_Witness ==
    /\ pc = "done"
    /\ DestroyedAt # {}
    /\ \E j \in 1..Len(sessions) :
          /\ j \notin DestroyedAt
          /\ sessions[j].last_xmit_ago # None
          /\ \/ /\ sessions[j].state = Some(connected)
                /\ sessions[j].last_xmit_ago[1] = OneHour
             \/ /\ sessions[j].state = Some(shutdown_write)
                /\ sessions[j].last_xmit_ago[1] = TenMinutes
    /\ \E j \in 1..Len(sessions) :
          /\ j \notin DestroyedAt
          /\ sessions[j].last_xmit_ago # None
          /\ sessions[j].state \notin {Some(connected), Some(shutdown_write)}
          /\ LongerThan(sessions[j].last_xmit_ago[1], 3600)

-----------------------------------------------------------------------------
(* C2 *)

\* C2 as stated: of any two records destroyed in a run, the one earlier in
\* the session list has its destroy-session command issued first.
C2_SnapshotOrder ==
    \A i, j \in 1..Len(events) :
        (/\ events[i].ev = "destroy"
         /\ events[j].ev = "destroy"
         /\ events[i].idx < events[j].idx) => i < j

\* C2, amended: of any two records in the same state destroyed in a run, the
\* one earlier in the session list has its destroy-session command issued
\* first.
C2_SameStateOrder ==
    \A i, j \in 1..Len(events) :
        (/\ events[i].ev = "destroy"
         /\ events[j].ev = "destroy"
         /\ sessions[events[i].idx].state = sessions[events[j].idx].state
         /\ events[i].idx < events[j].idx) => i < j

\* two records in the same state have been destroyed
C2_Witness ==
    \E i, j \in 1..Len(events) :
        /\ i < j
        /\ events[i].ev = "destroy"
        /\ events[j].ev = "destroy"
        /\ sessions[events[i].idx].state = sessions[events[j].idx].state

-----------------------------------------------------------------------------
(* C3 *)

\* C3: an exception raised in a run is the last thing that happens in it: no
\* row is printed and no command is issued after it, control only unwinds
\* (wait, then out of main), and no row or command is repeated.
C3_FailurePropagates ==
    /\ \A i \in 1..Len(events) : events[i].ev = "raise" => i = Len(events)
    /\ exc # None => pc \in {"gs_wait", "gs_return", "ds_wait", "ds_return",
                             "failed"}
    /\ \A i, j \in 1..Len(events) :
          (i < j /\ events[i].ev = events[j].ev)
              => <<events[i].pass, events[i].idx>> # <<events[j].pass, events[j].idx>>

\* a destroy_session call raised and ended the run while a stale record
\* other than the failing one was still to be destroyed
C3_Witness ==
    /\ pc = "failed"
    /\ DestroyRaised
    /\ \E j \in StaleAt : j \notin DestroyedAt /\ j # LastEvent.idx

-----------------------------------------------------------------------------
(* C4 *)

\* C4 as stated: when a destroy call has failed, every other stale record of
\* the snapshot still has its destroy-session command issued by the end of
\* the run.
C4_ContinuesPastFailure ==
    (pc \in {"done", "failed"} /\ DestroyRaised)
        => \A j \in StaleAt : j # LastEvent.idx => j \in DestroyedAt

\* C4, amended: the reaper does not continue past a destroy call that
\* raises.  When the run has ended on such a call, the records destroyed are
\* the stale records the loops reached before the failing one (shutdown-write
\* records, then connected ones, each in list order), and the failing one
\* itself if its command had been written before the call raised.
C4_StopsAtFailure ==
    (pc = "failed" /\ DestroyRaised)
        => LET p == LastEvent.pass
               i == LastEvent.idx
               before == {j \in StaleAt :
                             \/ PassOf(sessions[j]) < p
                             \/ PassOf(sessions[j]) = p /\ j < i}
           IN DestroyedAt = before \cup (IF LastEvent.at = "ds_read" THEN {i} ELSE {})

\* a run ended on a failing destroy call after destroying a record and
\* before destroying another stale one
C4_Witness ==
    /\ pc = "failed"
    /\ DestroyRaised
    /\ DestroyedAt \ {LastEvent.idx} # {}
    /\ \E j \in StaleAt : j \notin DestroyedAt /\ j # LastEvent.idx

-----------------------------------------------------------------------------
(* C5 *)

\* C5: a get_sessions or destroy_session call whose relay could not be
\* started, or exited with a non-zero status, ends in an exception.
C5_RelayFailureIsError ==
    /\ (pc \in {"gs_return", "ds_return"} /\ rc # Some(0)) => exc # None
    /\ (events # <<>> /\ LastEvent.ev = "raise" /\ LastEvent.at \in {"main", "ds_popen"})
          => (pc = "failed" /\ exc = Some("OSError"))

-----------------------------------------------------------------------------
(* C6 *)

\* C6: the rows printed and the destroy-session commands issued alternate,
\* row first: the k-th command is for the record of the k-th row, there are
\* never more commands than rows nor more than one row without its command,
\* and when no record of the list is stale nothing is printed or destroyed.
C6_RowBeforeDestroy ==
    LET P == EventsOf("print")
        D == EventsOf("destroy")
    IN
    /\ Len(stdout) = Len(P)
    /\ DestroyCommands = Len(D)
    /\ Len(D) <= Len(P)
    /\ Len(P) <= Len(D) + 1
    /\ \A k \in 1..Len(P) : stdout[k][1] = sessions[P[k].idx].session_id
    /\ \A k \in 1..Len(D) : D[k].idx = P[k].idx /\ D[k].pass = P[k].pass
    /\ StaleAt = {} => (stdout = <<>> /\ DestroyCommands = 0)

\* a second row has been printed and its destroy-session command is still
\* to be issued
C6_Witness ==
    /\ Len(stdout) = 2
    /\ DestroyCommands = 1
    /\ pc \in {"ds_popen", "ds_write"}

-----------------------------------------------------------------------------
(* C7 *)

\* C7: load_sessions never takes a line beyond the first END line; when it
\* has taken that line it has returned without an exception, the END line
\* has produced no record, and the records are those of the lines before it.
C7_StopsAtEnd ==
    LET k == FirstEnd(stream) IN
    /\ pos <= k
    /\ (pos = k /\ k <= Len(stream)) =>
          /\ pc = after_load
          /\ exc = None
          /\ lineout[k] = "break"
          /\ Len(acc) = Cardinality({j \in 1..k - 1 : lineout[j] = "append"})

\* load_sessions has returned at an END line that followed a decoded record
\* and is followed by a malformed line
C7_Witness ==
    LET k == FirstEnd(stream) IN
    /\ pc = "load_end"
    /\ pos = k
    /\ k < Len(stream)
    /\ acc # <<>>
    /\ Malformed(py, stream[k + 1])

-----------------------------------------------------------------------------
(* C8 *)

\* C8 as stated: a line before END with 3 or fewer whitespace-delimited
\* fields is skipped, never raising.
C8_FewWsFieldsSkipped ==
    \A k \in 1..pos :
        (k < FirstEnd(stream) /\ WsFieldCount(stream[k]) <= 3)
            => lineout[k] = "continue"

\* C8, amended: a line before END that, stripped, holds at most two space
\* characters (3 or fewer fields when split on single spaces) is skipped: it
\* adds no record, raises nothing, and decoding goes on with the next line.
C8_ShortLinesSkipped ==
    /\ \A k \in 1..pos :
          (k < FirstEnd(stream) /\ FieldCount(strip(py, stream[k])) <= 3)
              => /\ lineout[k] = "continue"
                 /\ (pos = k => /\ exc = None
                                /\ pc = IF k < Len(stream) THEN "load"
                                        ELSE pc)
    /\ Len(acc) = Cardinality({j \in 1..pos : lineout[j] = "append"})

\* a short line was skipped between two decoded records
C8_Witness ==
    /\ pos = 3
    /\ lineout = <<"append", "continue", "append">>
    /\ FieldCount(strip(py, stream[2])) <= 3

-----------------------------------------------------------------------------
(* C9 *)

\* C9: when a four-field line before END is malformed, the reaper run gets no
\* session list and issues no destroy-session command: load_sessions raises
\* at the first such line (ValueError, or OverflowError for a duration no
\* timedelta can hold), dropping the records decoded so far.
C9_MalformedAborts ==
    LET bad == MalformedLines IN
    bad # {} =>
        /\ sessions = <<>>
        /\ DestroyCommands = 0
        /\ pc \in {"main", "gs_write", "load", "gs_wait", "gs_return", "failed"}
        /\ pos <= Min(bad)
        /\ pos = Min(bad) =>
              /\ exc \in {Some("ValueError"), Some("OverflowError")}
              /\ pc # "load"

\* a run failed on a malformed line after load_sessions had decoded a stale
\* record
C9_Witness ==
    /\ pc = "failed"
    /\ exc = Some("ValueError")
    /\ MalformedLines # {}
    /\ \E n \in 1..Len(acc) : StaleRecord(acc[n])

-----------------------------------------------------------------------------
(* C10 *)

\* the four-field lines before END
FourFieldLines ==
    {k \in 1..Len(stream) : k < FirstEnd(stream) /\ FieldCount(strip(py, stream[k])) >= 4}

\* the duration decoded from an optional integer text
DurationOf(v, o) ==
    IF o = None THEN None ELSE Some(timedelta_from_ms(v, int(v, o[1])).td)

\* C10: when no line before END is malformed, load_sessions returns one
\* record per four-field line, in input order; the record's session_id,
\* state and local_sock_info are the line's first three fields, and
\* session_age, last_xmit_ago and backend come from the last token whose
\* text before its first "=" is session_age_ms, last_xmit_ago_ms and
\* backend_name, or are unset when there is no such token.
C10_Decoded ==
    (pc = "load_end" /\ MalformedLines = {}) =>
        /\ exc = None
        /\ Len(acc) = Cardinality(FourFieldLines)
        /\ \A n \in 1..Len(acc) :
              LET t == strip(py, stream[NthOf(FourFieldLines, n)]) IN
              /\ acc[n].session_id = Some(Field(t, 1))
              /\ acc[n].state = Some(Field(t, 2))
              /\ acc[n].local_sock_info = Some(Field(t, 3))
              /\ acc[n].session_age = DurationOf(py, LastValue(t, session_age_ms))
              /\ acc[n].last_xmit_ago = DurationOf(py, LastValue(t, last_xmit_ago_ms))
              /\ acc[n].backend = LastValue(t, backend_name)

\* load_sessions returned two records around a short line, one of them with
\* a backend name holding "=" and no last_xmit_ago
C10_Witness ==
    /\ pc = "load_end"
    /\ MalformedLines = {}
    /\ Len(acc) = 2
    /\ \E j \in 1..pos : lineout[j] = "continue"
    /\ \E n \in 1..Len(acc) :
          /\ acc[n].backend = Some(<<"q", "=", "r">>)
          /\ acc[n].last_xmit_ago = None


-----------------------------------------------------------------------------
(* C11 *)

\* the days of a duration, and the milliseconds it holds beyond them
DaysOf(d) == d[1]
RestOf(d) == d[2] * 1000 + d[3] \div 1000

\* C11: for every ms >= 0, timedelta_from_ms(ms) is a duration of
\* floor(ms / 86400000) days plus ms mod 86400000 milliseconds, whose total
\* length in milliseconds is ms: no elapsed time is counted twice.
C11_TotalEqualsMs ==
    pc = "td_return" =>
        /\ call_td # None
        /\ DaysOf(call_td[1]) = call_ms \div MsPerDay
        /\ RestOf(call_td[1]) = call_ms % MsPerDay
        /\ call_td[1][3] % 1000 = 0

-----------------------------------------------------------------------------
(* C12 *)

\* control is inside the try statement of get_sessions or destroy_session
InCall == pc \in {"gs_write", "load", "gs_wait", "ds_write", "ds_read", "ds_wait"}
\* the last thing that happened is Popen raising at the given place
PopenFailed(place) ==
    events # <<>> /\ LastEvent.ev = "raise" /\ LastEvent.at = place
\* calls whose relay has been started
ListingStarted == IF pc = "main" \/ PopenFailed("main") THEN 0 ELSE 1
DestroyStarted ==
    Len(EventsOf("print"))
      - (IF pc = "ds_popen" \/ PopenFailed("ds_popen") THEN 1 ELSE 0)
\* writes that raised
WriteRaised ==
    Cardinality({i \in 1..Len(events) :
                    events[i].ev = "raise" /\ events[i].at \in {"gs_write", "ds_write"}})

\* C12: every management call runs on a connection of its own and to
\* completion: a relay is open exactly while control is inside the try
\* statement of one call (so at most one is open, and none once the call has
\* returned or failed, also after a failed write or read); the relays
\* started are one for the listing plus one for each destroy call started;
\* and no relay is sent more than one command.
C12_OneConnectionPerCall ==
    /\ nopen = IF InCall THEN 1 ELSE 0
    /\ nopened = ListingStarted + DestroyStarted
    /\ Len(cmds) = nopened - WriteRaised
                     - (IF pc \in {"gs_write", "ds_write"} THEN 1 ELSE 0)

\* the read of the second destroy call failed and the run has ended: three
\* relays were started and none is left open
C12_Witness ==
    /\ pc = "failed"
    /\ PopenFailed("ds_read")
    /\ nopened = 3
    /\ nopen = 0

-----------------------------------------------------------------------------
(* C13 *)

ListingCommands ==
    Cardinality({k \in 1..Len(cmds) : cmds[k] = print_active_sessions})

\* C13: a run issues print-active-sessions at most once, as its first
\* command, and exactly once when it reaches its passes; the list both
\* passes walk is the one decoded from the answer to that command; and every
\* later command is destroy-session with the id of a record of that list.
C13_OneSnapshot ==
    /\ ListingCommands <= 1
    /\ cmds # <<>> => cmds[1] = print_active_sessions
    /\ pass >= 1 => /\ ListingCommands = 1
                    /\ sessions = acc
    /\ \A k \in 2..Len(cmds) :
          \E j \in 1..Len(sessions) :
              cmds[k] = destroy_command(sessions[j].session_id[1])

\* a run has ended in which both passes destroyed a record
C13_Witness ==
    /\ pc = "done"
    /\ \E i, j \in 1..Len(events) :
          /\ events[i].ev = "destroy" /\ events[i].pass = 1
          /\ events[j].ev = "destroy" /\ events[j].pass = 2

-----------------------------------------------------------------------------
(* C14 *)

\* sorted_from_expr has returned to main of the listing tool
SortReturned ==
    \/ pc \in {"fmt_for", "done"}
    \/ pc = "failed" /\ LastEvent.at = "fmt_for"

\* the call of sorted_from_expr has ended: it has returned, or raised
SortEnded ==
    \/ SortReturned
    \/ pc = "failed" /\ LastEvent.at = "fmt_sort"

\* the sort expression of the run: its direction, its field, the key of s
Descending == startswith_minus(argv[1])
SortField == IF Descending THEN Tail(argv[1]) ELSE argv[1]
SortKey(s) == attrgetter(py, SortField, s).val
KeyLess(s, t) == value_lt(py, SortKey(s), SortKey(t))
KeyTie(s, t) == ~KeyLess(s, t) /\ ~KeyLess(t, s)

\* the keys of the decoded records, in decoding order
RawKeys == tuple([i \in 1..Len(acc) |-> SortKey(acc[i])], Len(acc))

\* the model resolves the key of every decoded record, and determines the
\* outcome of the comparison of every two of the keys
KeysDetermined ==
    /\ \A i \in 1..Len(acc) :
          /\ attrgetter(py, SortField, acc[i]).known
          /\ attrgetter(py, SortField, acc[i]).raised = None
    /\ keys_order_known(py, RawKeys)

\* every two of the decoded records have keys Python can order
KeysOrdered ==
    LET keys == RawKeys IN
    \A i, j \in 1..Len(acc) : i # j => comparable(py, keys[i], keys[j])

\* the one-to-one maps of 1..n onto itself
PermutationsOf(n) ==
    {f \in [1..n -> 1..n] : \A i, j \in 1..n : f[i] = f[j] => i = j}

    /\ KeyLess(sessions[2], sessions[1])
    /\ KeyTie(sessions[2], sessions[3])
    /\ sessions[2] # sessions[3]
    /\ sessions # acc

-----------------------------------------------------------------------------
(* C15 *)

\* the first name of the dotted path of the sort expression
FirstName ==
    IF find(SortField, ".") = 0 THEN SortField
    ELSE SubSeq(SortField, 1, find(SortField, ".") - 1)

\* the sort expression names a field no record has: its first name is not
\* an attribute of a Session
UnknownField == argv # None /\ ~in_dir_Session(py, FirstName)

\* C15: in a run of the listing tool whose sort expression names a field no
\* record has, the for loop over the sorted list is never entered, whatever
\* was decoded: no session row follows the header and the run does not end
\* normally.
C15_UnknownFieldFatal ==
    UnknownField => /\ pc \notin {"fmt_for", "done"}
                    /\ Len(stdout) <= 1

-----------------------------------------------------------------------------
(* C16 *)

\* control is inside a destroy_session call
InDestroy == pc \in {"ds_popen", "ds_write", "ds_read", "ds_wait", "ds_return"}

\* the rows printed so far are the rows of the records selected so far, as
\* the list holds them now
RowsMatch ==
    LET P == EventsOf("print") IN
    /\ Len(stdout) = Len(P)
    /\ \A k \in 1..Len(P) :
          stdout[k] = print_session(py, sessions[P[k].idx]).row

\* C16: no step of a destroy_session call, whether the call returns or
\* raises, changes the session list or the rows printed; and at every point
\* of the run the rows printed are those of the records selected so far.
C16_DestroyLeavesSnapshot ==
    /\ []RowsMatch
    /\ [][InDestroy => (sessions' = sessions /\ stdout' = stdout)]_vars

\* the destroy call for the third record selected has raised after its
\* relay was started, with the rows of all three records printed
C16_Witness ==
    /\ pc = "failed"
    /\ DestroyRaised
    /\ LastEvent.at \in {"ds_write", "ds_read"}
    /\ Len(stdout) = 3
    /\ sessions = acc

-----------------------------------------------------------------------------
(* C17 *)

\* the record a destroy event is about
RecordOf(e) == sessions[e.idx]

\* C17: of any two destroy-session commands of a run, the earlier one is for
\* a shutdown-write record and the later one for a connected record, or both
\* are for records in one state and the earlier one is for the record
\* earlier in the list; and once something has raised during the first pass,
\* no command for a connected record is ever issued.
C17_PassesInSequence ==
    /\ \A i, j \in 1..Len(events) :
          (i < j /\ events[i].ev = "destroy" /\ events[j].ev = "destroy") =>
              \/ /\ RecordOf(events[i]).state = Some(shutdown_write)
                 /\ RecordOf(events[j]).state = Some(connected)
              \/ /\ RecordOf(events[i]).state = RecordOf(events[j]).state
                 /\ events[i].idx < events[j].idx
    /\ (\E i \in 1..Len(events) : events[i].ev = "raise" /\ events[i].pass = 1) =>
          \A j \in 1..Len(events) :
              events[j].ev = "destroy" =>
                  RecordOf(events[j]).state # Some(connected)

\* the run has failed in the first pass, after a shutdown-write record was
\* destroyed, and a stale connected record that stands before that record
\* in the list has been left alone
C17_Witness ==
    /\ pc = "failed"
    /\ LastEvent.ev = "raise"
    /\ LastEvent.pass = 1
    /\ \E i \in 1..Len(events) :
          /\ events[i].ev = "destroy"
          /\ \E j \in 1..Len(sessions) :
                /\ j < events[i].idx
                /\ sessions[j].state = Some(connected)
                /\ StaleRecord(sessions[j])
                /\ j \notin DestroyedAt

-----------------------------------------------------------------------------
(* C18 *)

\* the positions, in the history, of the events of a kind
EventsAt(what) == {i \in 1..Len(events) : events[i].ev = what}

\* the ids of the session list are pairwise different
UniqueIds ==
    \A i, j \in 1..Len(sessions) :
        sessions[i].session_id = sessions[j].session_id => i = j

\* C18: no record passes the test of both loops; no two rows and no two
\* destroy-session commands of a run are for the same record; there are
\* never more destroy-session commands than records; and when the ids of the
\* list are pairwise different, no two destroy-session commands are equal.
C18_AtMostOncePerRecord ==
    /\ \A j \in 1..Len(sessions) :
          ~(main_if(1, sessions[j]) = "select" /\ main_if(2, sessions[j]) = "select")
    /\ \A what \in {"print", "destroy"} :
          \A i, j \in EventsAt(what) : events[i].idx = events[j].idx => i = j
    /\ DestroyCommands <= Len(sessions)
    /\ UniqueIds => \A k, l \in 2..Len(cmds) : cmds[k] = cmds[l] => k = l

\* a run over three records with different ids has ended with a destroy
\* command in each pass
C18_Witness ==
    /\ pc = "done"
    /\ Len(sessions) = 3
    /\ UniqueIds
    /\ \E i, j \in EventsAt("destroy") : events[i].pass = 1 /\ events[j].pass = 2
    /\ DestroyCommands = 2

-----------------------------------------------------------------------------
(* C19 *)

\* a record whose line carried no last_xmit_ago_ms key
Unset(s) == s.last_xmit_ago = None
\* the p-th loop has gone past list position j
LoopPassed(p, j) ==
    \/ pc = "done"
    \/ pass > p
    \/ pass = p /\ idx > j

\* C19: a loop never gets past a record in the state it tests that has
\* last_xmit_ago unset: the comparison raises there, which ends the run with
\* nothing printed, nothing destroyed for that record and nothing happening
\* after it; the comparison raises nowhere else, and a record in any other
\* state with last_xmit_ago unset is passed over by both loops.
C19_UnsetAgeFails ==
    /\ \A p \in 1..2 : \A j \in 1..Len(sessions) :
          (sessions[j].state = Some(loop_state(p)) /\ Unset(sessions[j]))
              => ~LoopPassed(p, j)
    /\ \A i \in 1..Len(events) :
          (events[i].ev = "raise" /\ events[i].at = "for") =>
              /\ i = Len(events)
              /\ pc = "failed"
              /\ exc = Some("TypeError")
              /\ RecordOf(events[i]).state = Some(loop_state(events[i].pass))
              /\ Unset(RecordOf(events[i]))
              /\ \A k \in 1..Len(events) : k # i => events[k].idx # events[i].idx
    /\ \A j \in 1..Len(sessions) :
          (Unset(sessions[j])
             /\ sessions[j].state \notin {Some(shutdown_write), Some(connected)})
              => main_if(1, sessions[j]) = "skip" /\ main_if(2, sessions[j]) = "skip"

\* the second loop has passed over a record in another state without
\* last_xmit_ago and has failed on a connected record without it, leaving a
\* stale connected record behind it untouched
C19_Witness ==
    /\ pc = "failed"
    /\ LastEvent.ev = "raise"
    /\ LastEvent.at = "for"
    /\ LastEvent.pass = 2
    /\ LastEvent.idx = 2
    /\ Unset(sessions[1])
    /\ sessions[1].state \notin {Some(shutdown_write), Some(connected)}
    /\ Len(sessions) = 3
    /\ StaleRecord(sessions[3])
    /\ events = <<LastEvent>>
=============================================================================
